---- MODULE Spec2Model ----
(***************************************************************************)
(* Event-driven core of skripsaha/core: the hardware deck (timer table,    *)
(* device stubs, console operations) of                                    *)
(* src/kernel/eventdriven/decks/hardware_deck.c, the user-side ring        *)
(* transport and console calls of src/userspace/ulib/ulib.c, the ELF       *)
(* loader of src/kernel/loader/elf_loader.c and the workflow table.        *)
(***************************************************************************)
EXTENDS Integers, Sequences, FiniteSets, TLC

(***************************************************************************)
(* Program constants.                                                      *)
(***************************************************************************)
TICKS_PER_MS == 2400000      \* ms -> TSC conversion used by timer_create
MAX_DELAY_MS == 3600000      \* "max 1 hour" validation limit
EVENT_DATA_SIZE == 224
MAX_DEV_NAME == 64
MAX_DEV_READ == 1048576      \* 1024 * 1024
MAX_LINE == 256

EVENT_DEV_OPEN == 40
EVENT_DEV_IOCTL == 41
EVENT_DEV_READ == 42
EVENT_DEV_WRITE == 43
EVENT_TIMER_CREATE == 50
EVENT_TIMER_CANCEL == 51
EVENT_TIMER_SLEEP == 52
EVENT_TIMER_GETTICKS == 53
EVENT_CONSOLE_WRITE == 70
EVENT_CONSOLE_WRITE_ATTR == 71
EVENT_CONSOLE_READ_LINE == 72
EVENT_CONSOLE_READ_CHAR == 73
EVENT_CONSOLE_CLEAR == 74
EVENT_CONSOLE_SET_POS == 75
EVENT_CONSOLE_GET_POS == 76

DECK_PREFIX_HARDWARE == 3
VGA_DEFAULT == 7
VGA_INPUT == 15

NULL == 0

(***************************************************************************)
(* Bounds of the model.  The two table capacities are scaled down: the     *)
(* code has MAX_TIMERS = 64 (hardware_deck.c:21) and 256 ring slots        *)
(* (ulib.h:146, ulib.c:31,36).                                             *)
(***************************************************************************)
MAX_TIMERS == 2              \* timer table slots explored
MaxEntries == 3              \* routing entries submitted in one behaviour
MaxQueue == 1                \* entries waiting in the deck's input queue
MaxHalfMs == 4               \* clock horizon, in half milliseconds
MaxKeys == 2                 \* key presses in one behaviour
RING_SIZE == 3               \* slots of each ring explored
MaxEvents == 5               \* events the user program builds in one behaviour

\* Clock readings, expirations and intervals are counted in steps of HalfMs
\* cycles; every value the code computes is a whole number of them.
HalfMs == TICKS_PER_MS \div 2

\* ms * 2400000 cycles, in steps.
MsToTicks(ms) == ms * (TICKS_PER_MS \div HalfMs)

VARIABLES
    clock,          \* rdtsc(): the monotonic cycle counter, in steps of HalfMs
    timers,         \* static Timer timers[MAX_TIMERS]
    next_timer_id,  \* static volatile uint64_t next_timer_id
    entries,        \* the RoutingEntry objects handed out by the router
    queue,          \* input queue of hardware_deck_context
    responses,      \* Responses produced by deck_complete / deck_error_detailed
    vga,            \* calls made to the VGA driver and to the device layer, in order
    kbd,            \* keys pressed and not yet read
    keys_pressed,   \* number of key presses so far
    pc,             \* position of the deck's execution context
    rl,             \* the console read-line in progress (pc = "readline")
    slept_at,       \* history: clock reading at which each entry was suspended
    event_ring,     \* EventRing at EVENT_RING_ADDR: head, tail, events[]
    response_ring,  \* ResponseRing at RESULT_RING_ADDR: head, tail, responses[]
    next_event_id,  \* static uint64_t next_event_id of the library
    upc,            \* position of the user program inside the library
    u,              \* locals of the call in progress: arguments, locals, result
    pushed,         \* events published by push_event, in order
    consumed,       \* events the kernel took from the event ring, in order
    produced,       \* responses the kernel published, in order
    popped,         \* responses pop_response copied out, in order
    rejected,       \* events whose push_event returned 0
    workflows       \* the kernel's table of registered workflow definitions

deckVars == <<clock, timers, next_timer_id, entries, queue, responses, vga, kbd,
              keys_pressed, pc, rl, slept_at>>

ringVars == <<event_ring, response_ring, next_event_id, upc, u, pushed, consumed,
              produced, popped, rejected>>

vars == <<deckVars, ringVars, workflows>>

(***************************************************************************)
(* Timer table.                                                            *)
(***************************************************************************)
Slots == 0 .. (MAX_TIMERS - 1)

Timer0 ==
    [id |-> 0, owner_workflow_id |-> 0, expiration |-> 0, interval |-> 0,
     event_id |-> 0, suspended_entry |-> NULL, active |-> 0]

\* The part of the kernel state the deck's functions read and write.
DeckState ==
    [timers |-> timers, next_timer_id |-> next_timer_id, entries |-> entries,
     responses |-> responses, vga |-> vga, kbd |-> kbd]

\* atomic_increment_u64(&next_timer_id): adds one and returns the new value.
atomic_increment_u64(n) == n + 1

FreeSlots(st) == {i \in Slots : st.timers[i].active = 0}

MinOf(S) == CHOOSE x \in S : \A y \in S : x <= y

\* Variant of timer_create that stores the delay without converting it from
\* milliseconds to cycles.
timer_create_unconverted(st, delay_ms, interval_ms, entry, now) ==
    IF FreeSlots(st) = {}
    THEN [st |-> st, slot |-> -1]
    ELSE LET i == MinOf(FreeSlots(st))
             nid == atomic_increment_u64(st.next_timer_id)
         IN  [st |-> [st EXCEPT
                        !.next_timer_id = nid,
                        !.timers[i] =
                            [id |-> nid,
                             owner_workflow_id |->
                                 IF entry # NULL THEN st.entries[entry].ev.user_id ELSE 0,
                             expiration |-> now + delay_ms,
                             interval |-> MsToTicks(interval_ms),
                             event_id |-> st.timers[i].event_id,
                             suspended_entry |-> entry,
                             active |-> 1]],
              slot |-> i]

\* Variant of timer_create that takes slot 0 when no slot is free.
timer_create_evicting(st, delay_ms, interval_ms, entry, now) ==
    IF FALSE
    THEN [st |-> st, slot |-> -1]
    ELSE LET i == IF FreeSlots(st) = {} THEN 0 ELSE MinOf(FreeSlots(st))
             nid == atomic_increment_u64(st.next_timer_id)
         IN  [st |-> [st EXCEPT
                        !.next_timer_id = nid,
                        !.timers[i] =
                            [id |-> nid,
                             owner_workflow_id |->
                                 IF entry # NULL THEN st.entries[entry].ev.user_id ELSE 0,
                             expiration |-> now + MsToTicks(delay_ms),
                             interval |-> MsToTicks(interval_ms),
                             event_id |-> st.timers[i].event_id,
                             suspended_entry |-> entry,
                             active |-> 1]],
              slot |-> i]

\* Variant of timer_create that derives the timer id from the slot it takes.
timer_create_slot_id(st, delay_ms, interval_ms, entry, now) ==
    IF FreeSlots(st) = {}
    THEN [st |-> st, slot |-> -1]
    ELSE LET i == MinOf(FreeSlots(st))
             nid == atomic_increment_u64(st.next_timer_id)
         IN  [st |-> [st EXCEPT
                        !.next_timer_id = nid,
                        !.timers[i] =
                            [id |-> i + 2,
                             owner_workflow_id |->
                                 IF entry # NULL THEN st.entries[entry].ev.user_id ELSE 0,
                             expiration |-> now + MsToTicks(delay_ms),
                             interval |-> MsToTicks(interval_ms),
                             event_id |-> st.timers[i].event_id,
                             suspended_entry |-> entry,
                             active |-> 1]],
              slot |-> i]

\* timer_create(delay_ms, interval_ms, entry): first free slot, or NULL (-1).
\* Result: [st, slot] with slot = -1 when the table is full.
timer_create(st, delay_ms, interval_ms, entry, now) ==
    IF FreeSlots(st) = {}
    THEN [st |-> st, slot |-> -1]
    ELSE LET i == MinOf(FreeSlots(st))
             nid == atomic_increment_u64(st.next_timer_id)
         IN  [st |-> [st EXCEPT
                        !.next_timer_id = nid,
                        !.timers[i] =
                            [id |-> nid,
                             owner_workflow_id |->
                                 IF entry # NULL THEN st.entries[entry].ev.user_id ELSE 0,
                             expiration |-> now + MsToTicks(delay_ms),
                             interval |-> MsToTicks(interval_ms),
                             event_id |-> st.timers[i].event_id,
                             suspended_entry |-> entry,
                             active |-> 1]],
              slot |-> i]

CancelMatches(st, timer_id) ==
    {i \in Slots : st.timers[i].active = 1 /\ st.timers[i].id = timer_id}

\* Variant of timer_cancel that matches slots by id alone.
timer_cancel_ignoring_active(st, timer_id) ==
    LET matches == {i \in Slots : st.timers[i].id = timer_id} IN
    IF matches = {}
    THEN [st |-> st, found |-> 0]
    ELSE [st |-> [st EXCEPT !.timers[MinOf(matches)].active = 0], found |-> 1]

\* timer_cancel(timer_id): deactivates the first active slot with that id.
\* Result: [st, found].
timer_cancel(st, timer_id) ==
    IF CancelMatches(st, timer_id) = {}
    THEN [st |-> st, found |-> 0]
    ELSE [st |-> [st EXCEPT !.timers[MinOf(CancelMatches(st, timer_id))].active = 0],
          found |-> 1]

(***************************************************************************)
(* Router primitives used by the deck.                                     *)
(***************************************************************************)
Response(st, e, status, error_code, result_type, result) ==
    [event_id |-> st.entries[e].ev.id, workflow_id |-> st.entries[e].ev.user_id, status |-> status,
     error_code |-> error_code, result_type |-> result_type, result |-> result,
     completed_prefix |-> DECK_PREFIX_HARDWARE]

\* deck_complete(entry, prefix, result, result_type)
deck_complete(st, e, result, result_type) ==
    [st EXCEPT !.entries[e].state = "COMPLETED",
               !.responses = Append(@, Response(st, e, 0, "ERROR_NONE", result_type, result))]

\* deck_error_detailed(entry, prefix, error_code, message)
deck_error_detailed(st, e, error_code) ==
    [st EXCEPT !.entries[e].state = "ERROR",
               !.responses = Append(@, Response(st, e, 1, error_code, "RESULT_TYPE_NONE", 0))]

(***************************************************************************)
(* timer_check_expired: one sweep of the table at clock reading now.       *)
(***************************************************************************)
\* Variant of the loop body that completes the linked entry and does not set
\* it back to PROCESSING.
SweepSlot_complete_only(st, i, now) ==
    LET t == st.timers[i] IN
    IF t.active = 1 /\ now >= t.expiration
    THEN LET woken ==
                 IF t.suspended_entry # NULL
                 THEN [deck_complete(st, t.suspended_entry, 0, "RESULT_TYPE_NONE") EXCEPT
                          !.timers[i].suspended_entry = NULL]
                 ELSE st
         IN  IF t.interval > 0
             THEN [woken EXCEPT !.timers[i].expiration = now + t.interval]
             ELSE [woken EXCEPT !.timers[i].active = 0]
    ELSE st

\* Variant of the loop body that fires expired slots whether active or not.
SweepSlot_ignoring_active(st, i, now) ==
    LET t == st.timers[i] IN
    IF now >= t.expiration
    THEN LET woken ==
                 IF t.suspended_entry # NULL
                 THEN [deck_complete(st, t.suspended_entry, 0, "RESULT_TYPE_NONE") EXCEPT
                          !.entries[t.suspended_entry].state = "PROCESSING",
                          !.timers[i].suspended_entry = NULL]
                 ELSE st
         IN  IF t.interval > 0
             THEN [woken EXCEPT !.timers[i].expiration = now + t.interval]
             ELSE [woken EXCEPT !.timers[i].active = 0]
    ELSE st

\* Variant of the loop body that deactivates every timer it fires.
SweepSlot_always_one_shot(st, i, now) ==
    LET t == st.timers[i] IN
    IF t.active = 1 /\ now >= t.expiration
    THEN LET woken ==
                 IF t.suspended_entry # NULL
                 THEN [deck_complete(st, t.suspended_entry, 0, "RESULT_TYPE_NONE") EXCEPT
                          !.entries[t.suspended_entry].state = "PROCESSING",
                          !.timers[i].suspended_entry = NULL]
                 ELSE st
         IN  [woken EXCEPT !.timers[i].active = 0]
    ELSE st

\* Variant of the loop body that fires a timer only after its expiration.
SweepSlot_strict(st, i, now) ==
    LET t == st.timers[i] IN
    IF t.active = 1 /\ now > t.expiration
    THEN LET woken ==
                 IF t.suspended_entry # NULL
                 THEN [deck_complete(st, t.suspended_entry, 0, "RESULT_TYPE_NONE") EXCEPT
                          !.entries[t.suspended_entry].state = "PROCESSING",
                          !.timers[i].suspended_entry = NULL]
                 ELSE st
         IN  IF t.interval > 0
             THEN [woken EXCEPT !.timers[i].expiration = now + t.interval]
             ELSE [woken EXCEPT !.timers[i].active = 0]
    ELSE st

\* Body of the loop for slot i.
SweepSlot(st, i, now) ==
    LET t == st.timers[i] IN
    IF t.active = 1 /\ now >= t.expiration
    THEN LET woken ==
                 IF t.suspended_entry # NULL
                 THEN [deck_complete(st, t.suspended_entry, 0, "RESULT_TYPE_NONE") EXCEPT
                          !.entries[t.suspended_entry].state = "PROCESSING",
                          !.timers[i].suspended_entry = NULL]
                 ELSE st
         IN  IF t.interval > 0
             THEN [woken EXCEPT !.timers[i].expiration = now + t.interval]
             ELSE [woken EXCEPT !.timers[i].active = 0]
    ELSE st

RECURSIVE SweepFrom(_, _, _)
SweepFrom(st, i, now) ==
    IF i >= MAX_TIMERS THEN st ELSE SweepFrom(SweepSlot(st, i, now), i + 1, now)

timer_check_expired(st, now) == SweepFrom(st, 0, now)

(***************************************************************************)
(* Leaf services: VGA driver calls are recorded in call order.             *)
(***************************************************************************)
vga_call(st, call) == [st EXCEPT !.vga = Append(@, call)]

\* device_open / device_ioctl / device_read / device_write, recorded in the
\* same call order. A payload pointer is given as its offset in data[].
device_call(st, call) == [st EXCEPT !.vga = Append(@, call)]

\* Byte i of the string region of a payload; bytes past the written ones are 0.
ByteAt(str, i) == IF i < Len(str) THEN str[i + 1] ELSE 0

\* Where the loop for (i = 0; i < size && str[i]; i++) started at i ends:
\* the first index from i on that is size or holds a zero byte (the bytes
\* past the written ones are zero).
LoopEnd(str, size, i) ==
    LET written == IF size < Len(str) THEN size ELSE Len(str)
        nuls == {k \in i .. (written - 1) : ByteAt(str, k) = 0}
    IN  IF nuls # {} THEN MinOf(nuls)
        ELSE IF written > i THEN written ELSE i

\* for (i = 0; i < size && str[i]; i++) newline or print_char(str[i], attr)
PrintLoop(st, str, size, attr, i) ==
    [st EXCEPT !.vga = @ \o
        [j \in 1 .. (LoopEnd(str, size, i) - i) |->
             IF ByteAt(str, i + j - 1) = 10
             THEN <<"newline">>
             ELSE <<"char", ByteAt(str, i + j - 1), attr>>]]

(***************************************************************************)
(* hardware_deck_process, one operator per case of the switch.             *)
(* Each yields [st, ret, rl]: the new state, the return value and, for a   *)
(* read-line still waiting for a key, the loop's locals (else NoReadLine). *)
(***************************************************************************)
NoReadLine == [entry |-> NULL, max_size |-> 0, pos |-> 0, line |-> <<>>]

Ret(st, ret) == [st |-> st, ret |-> ret, rl |-> NoReadLine]

\* Variant of the failure path that returns 1.
Fail_returning_1(st, e, code) == Ret(deck_error_detailed(st, e, code), 1)

\* deck_error_detailed(...); return 0;
Fail(st, e, code) == Ret(deck_error_detailed(st, e, code), 0)

\* Variant of the create case without the check of the interval.
case_TIMER_CREATE_any_interval(st, e, now) ==
    LET delay_ms == st.entries[e].ev.a
        interval_ms == st.entries[e].ev.b
        made == timer_create(st, delay_ms, interval_ms, NULL, now)
    IN  IF delay_ms = 0 THEN Fail(st, e, "ERROR_INVALID_PARAMETER")
        ELSE IF delay_ms > MAX_DELAY_MS THEN Fail(st, e, "ERROR_INVALID_PARAMETER")
        ELSE IF made.slot # -1
             THEN Ret(deck_complete(made.st, e, made.slot, "RESULT_TYPE_STATIC"), 1)
             ELSE Fail(made.st, e, "ERROR_HW_TIMER_SLOTS_FULL")

case_TIMER_CREATE(st, e, now) ==
    LET delay_ms == st.entries[e].ev.a
        interval_ms == st.entries[e].ev.b
        made == timer_create(st, delay_ms, interval_ms, NULL, now)
    IN  IF delay_ms = 0 THEN Fail(st, e, "ERROR_INVALID_PARAMETER")
        ELSE IF delay_ms > MAX_DELAY_MS THEN Fail(st, e, "ERROR_INVALID_PARAMETER")
        ELSE IF interval_ms > MAX_DELAY_MS THEN Fail(st, e, "ERROR_INVALID_PARAMETER")
        ELSE IF made.slot # -1
             THEN Ret(deck_complete(made.st, e, made.slot, "RESULT_TYPE_STATIC"), 1)
             ELSE Fail(made.st, e, "ERROR_HW_TIMER_SLOTS_FULL")

case_TIMER_CANCEL(st, e) ==
    LET timer_id == st.entries[e].ev.a
        done == timer_cancel(st, timer_id)
    IN  IF timer_id = 0 THEN Fail(st, e, "ERROR_INVALID_PARAMETER")
        ELSE IF done.found = 1
             THEN Ret(deck_complete(done.st, e, 0, "RESULT_TYPE_NONE"), 1)
             ELSE Fail(done.st, e, "ERROR_HW_TIMER_NOT_FOUND")

\* Variant of the sleep case whose timer repeats with the sleep's duration.
case_TIMER_SLEEP_periodic(st, e, now) ==
    LET ms == st.entries[e].ev.a
        made == timer_create(st, ms, ms, e, now)
    IN  IF ms = 0 THEN Fail(st, e, "ERROR_INVALID_PARAMETER")
        ELSE IF ms > MAX_DELAY_MS THEN Fail(st, e, "ERROR_INVALID_PARAMETER")
        ELSE IF made.slot # -1
             THEN Ret([made.st EXCEPT !.entries[e].state = "SUSPENDED"], 1)
             ELSE Fail(made.st, e, "ERROR_HW_TIMER_SLOTS_FULL")

\* Variant of the sleep case that creates the timer without the entry.
case_TIMER_SLEEP_unlinked(st, e, now) ==
    LET ms == st.entries[e].ev.a
        made == timer_create(st, ms, 0, NULL, now)
    IN  IF ms = 0 THEN Fail(st, e, "ERROR_INVALID_PARAMETER")
        ELSE IF ms > MAX_DELAY_MS THEN Fail(st, e, "ERROR_INVALID_PARAMETER")
        ELSE IF made.slot # -1
             THEN Ret([made.st EXCEPT !.entries[e].state = "SUSPENDED"], 1)
             ELSE Fail(made.st, e, "ERROR_HW_TIMER_SLOTS_FULL")

case_TIMER_SLEEP(st, e, now) ==
    LET ms == st.entries[e].ev.a
        made == timer_create(st, ms, 0, e, now)
    IN  IF ms = 0 THEN Fail(st, e, "ERROR_INVALID_PARAMETER")
        ELSE IF ms > MAX_DELAY_MS THEN Fail(st, e, "ERROR_INVALID_PARAMETER")
        ELSE IF made.slot # -1
             THEN Ret([made.st EXCEPT !.entries[e].state = "SUSPENDED"], 1)
             ELSE Fail(made.st, e, "ERROR_HW_TIMER_SLOTS_FULL")

case_TIMER_GETTICKS(st, e, now) ==
    Ret(deck_complete(st, e, now, "RESULT_TYPE_VALUE"), 1)

\* The payload's device name is given by its length up to the first NUL.
case_DEV_OPEN(st, e) ==
    LET len == st.entries[e].ev.a
        name_len == IF len < MAX_DEV_NAME THEN len ELSE MAX_DEV_NAME
    IN  IF len = 0 THEN Fail(st, e, "ERROR_INVALID_PARAMETER")
        ELSE IF name_len >= MAX_DEV_NAME THEN Fail(st, e, "ERROR_INVALID_PARAMETER")
        ELSE Ret(deck_complete(device_call(st, <<"device_open", 0>>), e, 100,
                               "RESULT_TYPE_VALUE"), 1)

case_DEV_IOCTL(st, e) ==
    LET device_id == st.entries[e].ev.a
    IN  IF device_id < 0 THEN Fail(st, e, "ERROR_INVALID_PARAMETER")
        ELSE Ret(deck_complete(device_call(st, <<"device_ioctl", device_id, 12>>), e, 0,
                               "RESULT_TYPE_NONE"), 1)

case_DEV_READ(st, e) ==
    LET device_id == st.entries[e].ev.a
        size == st.entries[e].ev.b
    IN  IF device_id < 0 THEN Fail(st, e, "ERROR_INVALID_PARAMETER")
        ELSE IF size = 0 THEN Fail(st, e, "ERROR_INVALID_PARAMETER")
        ELSE IF size > MAX_DEV_READ THEN Fail(st, e, "ERROR_INVALID_PARAMETER")
        ELSE Ret(deck_complete(device_call(st, <<"device_read", device_id, 0, size>>), e, 0,
                               "RESULT_TYPE_NONE"), 1)

\* Variant of the device write case that compares the size with the whole
\* payload region.
case_DEV_WRITE_whole_payload(st, e) ==
    LET device_id == st.entries[e].ev.a
        size == st.entries[e].ev.b
    IN  IF device_id < 0 THEN Fail(st, e, "ERROR_INVALID_PARAMETER")
        ELSE IF size = 0 THEN Fail(st, e, "ERROR_INVALID_PARAMETER")
        ELSE IF size > EVENT_DATA_SIZE THEN Fail(st, e, "ERROR_INVALID_PARAMETER")
        ELSE Ret(deck_complete(device_call(st, <<"device_write", device_id, 12, size>>),
                               e, 0, "RESULT_TYPE_NONE"), 1)

case_DEV_WRITE(st, e) ==
    LET device_id == st.entries[e].ev.a
        size == st.entries[e].ev.b
    IN  IF device_id < 0 THEN Fail(st, e, "ERROR_INVALID_PARAMETER")
        ELSE IF size = 0 THEN Fail(st, e, "ERROR_INVALID_PARAMETER")
        ELSE IF size > EVENT_DATA_SIZE - 12 THEN Fail(st, e, "ERROR_INVALID_PARAMETER")
        ELSE Ret(deck_complete(device_call(st, <<"device_write", device_id, 12, size>>),
                               e, 0, "RESULT_TYPE_NONE"), 1)

case_CONSOLE_WRITE(st, e) ==
    LET size == st.entries[e].ev.a
        str == st.entries[e].ev.str
    IN  IF size = 0 \/ size > EVENT_DATA_SIZE - 4
        THEN Fail(st, e, "ERROR_INVALID_PARAMETER")
        ELSE Ret(deck_complete(vga_call(PrintLoop(st, str, size, VGA_DEFAULT, 0),
                                        <<"update_cursor">>),
                               e, size, "RESULT_TYPE_VALUE"), 1)

case_CONSOLE_WRITE_ATTR(st, e) ==
    LET attr == st.entries[e].ev.b
        size == st.entries[e].ev.a
        str == st.entries[e].ev.str
    IN  IF size = 0 \/ size > EVENT_DATA_SIZE - 5
        THEN Fail(st, e, "ERROR_INVALID_PARAMETER")
        ELSE Ret(deck_complete(vga_call(PrintLoop(st, str, size, attr, 0),
                                        <<"update_cursor">>),
                               e, size, "RESULT_TYPE_VALUE"), 1)

\* The while loop of EVENT_CONSOLE_READ_LINE from its test up to the next
\* keyboard_getchar_blocking() that finds no key, or to the handler's end.
RECURSIVE ReadLineLoop(_, _)
ReadLineLoop(st, r) ==
    IF r.pos < r.max_size - 1
    THEN IF st.kbd = <<>>
         THEN [st |-> st, ret |-> 1, rl |-> r]
         ELSE LET c == Head(st.kbd)
                  s1 == [st EXCEPT !.kbd = Tail(@)]
              IN  IF c = 10 \/ c = 13
                  THEN Ret(deck_complete(vga_call(s1, <<"newline">>), r.entry, r.line,
                                         "RESULT_TYPE_KMALLOC"), 1)
                  ELSE IF c = 8
                  THEN IF r.pos > 0
                       THEN ReadLineLoop(vga_call(s1, <<"erase">>),
                                [r EXCEPT !.pos = @ - 1,
                                          !.line = SubSeq(@, 1, Len(@) - 1)])
                       ELSE ReadLineLoop(s1, r)
                  ELSE IF c >= 32 /\ c <= 126
                  THEN ReadLineLoop(vga_call(s1, <<"char", c, VGA_INPUT>>),
                                [r EXCEPT !.pos = @ + 1, !.line = Append(@, c)])
                  ELSE ReadLineLoop(s1, r)
    ELSE Ret(deck_complete(st, r.entry, r.line, "RESULT_TYPE_KMALLOC"), 1)

\* Variant of the read-line case that takes a requested size above MAX_LINE as
\* it is.
case_CONSOLE_READ_LINE_unclamped(st, e, malloc_ok) ==
    LET given == st.entries[e].ev.a
        max_size == IF given = 0 THEN MAX_LINE ELSE given
    IN  IF ~malloc_ok THEN Fail(st, e, "ERROR_OUT_OF_MEMORY")
        ELSE ReadLineLoop(st, [entry |-> e, max_size |-> max_size, pos |-> 0,
                               line |-> <<>>])

case_CONSOLE_READ_LINE(st, e, malloc_ok) ==
    LET given == st.entries[e].ev.a
        max_size == IF given = 0 \/ given > MAX_LINE THEN MAX_LINE ELSE given
    IN  IF ~malloc_ok THEN Fail(st, e, "ERROR_OUT_OF_MEMORY")
        ELSE ReadLineLoop(st, [entry |-> e, max_size |-> max_size, pos |-> 0,
                               line |-> <<>>])

\* keyboard_getchar(): the next key, or 0 if none is waiting.
case_CONSOLE_READ_CHAR(st, e) ==
    IF st.kbd = <<>>
    THEN Ret(deck_complete(st, e, 0, "RESULT_TYPE_VALUE"), 1)
    ELSE Ret(deck_complete([st EXCEPT !.kbd = Tail(@)], e, Head(st.kbd),
                           "RESULT_TYPE_VALUE"), 1)

case_CONSOLE_CLEAR(st, e) ==
    Ret(deck_complete(vga_call(st, <<"clear_screen">>), e, 0, "RESULT_TYPE_NONE"), 1)

case_CONSOLE_SET_POS(st, e) ==
    Ret(deck_complete(vga_call(st, <<"set_cursor", st.entries[e].ev.a,
                                     st.entries[e].ev.b>>),
                      e, 0, "RESULT_TYPE_NONE"), 1)

\* x, y: what vga_get_cursor_position_x/y return.
case_CONSOLE_GET_POS(st, e, x, y) ==
    Ret(deck_complete(st, e, y * 65536 + x, "RESULT_TYPE_VALUE"), 1)

\* Variant of the default case that returns without reporting anything.
case_default_silent(st, e) == Ret(st, 0)

\* Variant of the default case that reports an invalid parameter.
case_default_invalid(st, e) == Fail(st, e, "ERROR_INVALID_PARAMETER")

case_default(st, e) == Fail(st, e, "ERROR_NOT_IMPLEMENTED")

\* Variant of the dispatcher whose range check admits type 80.
hardware_deck_process_wide(st, e, now, env) ==
    IF e = NULL THEN Ret(st, 0)
    ELSE LET type == st.entries[e].ev.type IN
         IF ~(type >= 40 /\ type <= 80) THEN Fail(st, e, "ERROR_INVALID_PARAMETER")
         ELSE CASE type = EVENT_TIMER_CREATE -> case_TIMER_CREATE(st, e, now)
                [] type = EVENT_TIMER_CANCEL -> case_TIMER_CANCEL(st, e)
                [] type = EVENT_TIMER_SLEEP -> case_TIMER_SLEEP(st, e, now)
                [] type = EVENT_TIMER_GETTICKS -> case_TIMER_GETTICKS(st, e, now)
                [] type = EVENT_DEV_OPEN -> case_DEV_OPEN(st, e)
                [] type = EVENT_DEV_IOCTL -> case_DEV_IOCTL(st, e)
                [] type = EVENT_DEV_READ -> case_DEV_READ(st, e)
                [] type = EVENT_DEV_WRITE -> case_DEV_WRITE(st, e)
                [] type = EVENT_CONSOLE_WRITE -> case_CONSOLE_WRITE(st, e)
                [] type = EVENT_CONSOLE_WRITE_ATTR -> case_CONSOLE_WRITE_ATTR(st, e)
                [] type = EVENT_CONSOLE_READ_LINE ->
                       case_CONSOLE_READ_LINE(st, e, env.malloc_ok)
                [] type = EVENT_CONSOLE_READ_CHAR -> case_CONSOLE_READ_CHAR(st, e)
                [] type = EVENT_CONSOLE_CLEAR -> case_CONSOLE_CLEAR(st, e)
                [] type = EVENT_CONSOLE_SET_POS -> case_CONSOLE_SET_POS(st, e)
                [] type = EVENT_CONSOLE_GET_POS -> case_CONSOLE_GET_POS(st, e, env.x, env.y)
                [] OTHER -> case_default(st, e)

\* env: what the leaf services answer during this call.
hardware_deck_process(st, e, now, env) ==
    IF e = NULL THEN Ret(st, 0)
    ELSE LET type == st.entries[e].ev.type IN
         IF ~(type >= 40 /\ type < 80) THEN Fail(st, e, "ERROR_INVALID_PARAMETER")
         ELSE CASE type = EVENT_TIMER_CREATE -> case_TIMER_CREATE(st, e, now)
                [] type = EVENT_TIMER_CANCEL -> case_TIMER_CANCEL(st, e)
                [] type = EVENT_TIMER_SLEEP -> case_TIMER_SLEEP(st, e, now)
                [] type = EVENT_TIMER_GETTICKS -> case_TIMER_GETTICKS(st, e, now)
                [] type = EVENT_DEV_OPEN -> case_DEV_OPEN(st, e)
                [] type = EVENT_DEV_IOCTL -> case_DEV_IOCTL(st, e)
                [] type = EVENT_DEV_READ -> case_DEV_READ(st, e)
                [] type = EVENT_DEV_WRITE -> case_DEV_WRITE(st, e)
                [] type = EVENT_CONSOLE_WRITE -> case_CONSOLE_WRITE(st, e)
                [] type = EVENT_CONSOLE_WRITE_ATTR -> case_CONSOLE_WRITE_ATTR(st, e)
                [] type = EVENT_CONSOLE_READ_LINE ->
                       case_CONSOLE_READ_LINE(st, e, env.malloc_ok)
                [] type = EVENT_CONSOLE_READ_CHAR -> case_CONSOLE_READ_CHAR(st, e)
                [] type = EVENT_CONSOLE_CLEAR -> case_CONSOLE_CLEAR(st, e)
                [] type = EVENT_CONSOLE_SET_POS -> case_CONSOLE_SET_POS(st, e)
                [] type = EVENT_CONSOLE_GET_POS -> case_CONSOLE_GET_POS(st, e, env.x, env.y)
                [] OTHER -> case_default(st, e)

(***************************************************************************)
(* Events submitted to the deck.                                           *)
(***************************************************************************)
Ev(type, a, b, str) ==
    [id |-> 0, user_id |-> 1, type |-> type, a |-> a, b |-> b, str |-> str]

\* Payload values on both sides of every validation limit.
TimerEvents ==
    {Ev(EVENT_TIMER_CREATE, d, i, <<>>) :
         d \in {0, 1, MAX_DELAY_MS, MAX_DELAY_MS + 1}, i \in {0, 1}}
    \cup {Ev(EVENT_TIMER_CREATE, 1, i, <<>>) : i \in {MAX_DELAY_MS, MAX_DELAY_MS + 1}}
    \cup {Ev(EVENT_TIMER_CANCEL, t, 0, <<>>) : t \in 0 .. 4}
    \cup {Ev(EVENT_TIMER_SLEEP, d, 0, <<>>) : d \in {0, 1, 2, MAX_DELAY_MS, MAX_DELAY_MS + 1}}
    \cup {Ev(EVENT_TIMER_GETTICKS, 0, 0, <<>>)}

\* a: device id, or the length of the device name; b: size.
DeviceEvents ==
    {Ev(EVENT_DEV_OPEN, n, 0, <<>>) : n \in {0, 1, MAX_DEV_NAME - 1, MAX_DEV_NAME}}
    \cup {Ev(EVENT_DEV_IOCTL, d, 0, <<>>) : d \in {-1, 0, 100}}
    \cup {Ev(EVENT_DEV_READ, -1, 1, <<>>)}
    \cup {Ev(EVENT_DEV_READ, 100, n, <<>>) : n \in {0, 1, MAX_DEV_READ, MAX_DEV_READ + 1}}
    \cup {Ev(EVENT_DEV_WRITE, -1, 1, <<>>)}
    \cup {Ev(EVENT_DEV_WRITE, 100, n, <<>>) :
              n \in {0, 1, EVENT_DATA_SIZE - 12, EVENT_DATA_SIZE - 11}}

\* "hi", "h\n" and a string region with a NUL between two characters.
Strings == {<<104, 105>>, <<104, 10>>, <<104, 0, 105>>}

\* a: the length field; b: the attribute.
ConsoleEvents ==
    {Ev(EVENT_CONSOLE_WRITE, n, 0, s) : n \in {1, 2, 3}, s \in Strings}
    \cup {Ev(EVENT_CONSOLE_WRITE, n, 0, <<104, 105>>) :
              n \in {0, EVENT_DATA_SIZE - 4, EVENT_DATA_SIZE - 3}}
    \cup {Ev(EVENT_CONSOLE_WRITE_ATTR, 2, 12, s) : s \in Strings}
    \cup {Ev(EVENT_CONSOLE_WRITE_ATTR, n, 12, <<104, 105>>) :
              n \in {0, EVENT_DATA_SIZE - 5, EVENT_DATA_SIZE - 4}}
    \cup {Ev(EVENT_CONSOLE_READ_LINE, n, 0, <<>>) : n \in {0, 1, 2, 3, MAX_LINE + 1}}
    \cup {Ev(EVENT_CONSOLE_READ_CHAR, 0, 0, <<>>), Ev(EVENT_CONSOLE_CLEAR, 0, 0, <<>>),
          Ev(EVENT_CONSOLE_SET_POS, 1, 2, <<>>), Ev(EVENT_CONSOLE_GET_POS, 0, 0, <<>>)}

\* Types with no handler inside the deck's range, and types outside it.
OtherEvents == {Ev(t, 0, 0, <<>>) : t \in {39, 44, 60, 79, 80}}

EventInputs == TimerEvents \cup DeviceEvents \cup ConsoleEvents \cup OtherEvents

\* Timer operations whose payload passes validation: unlinked one-shot and
\* periodic timers, sleeps, and cancels of the first two timer ids handed out.
TimerInputs ==
    {Ev(EVENT_TIMER_CREATE, 1, i, <<>>) : i \in {0, 1}}
    \cup {Ev(EVENT_TIMER_SLEEP, d, 0, <<>>) : d \in {1, 2}}
    \cup {Ev(EVENT_TIMER_CANCEL, t, 0, <<>>) : t \in {2, 3}}

Keys == {97, 10, 8, 27}

(***************************************************************************)
(* Ring transport, user side (ulib.c) and its kernel-side counterparts.    *)
(***************************************************************************)
RingSlots == 0 .. (RING_SIZE - 1)

\* tail & 0xFF, head & 0xFF: the counter modulo the number of slots.
SlotIndex(counter) == counter % RING_SIZE

NoLocals == [ev |-> 0, tail |-> 0, head |-> 0, resp |-> 0, result |-> 0]

RingInit ==
    /\ event_ring = [head |-> 0, tail |-> 0, events |-> [i \in RingSlots |-> 0]]
    /\ response_ring = [head |-> 0, tail |-> 0, responses |-> [i \in RingSlots |-> 0]]
    /\ next_event_id = 1
    /\ upc = "idle"
    /\ u = NoLocals
    /\ pushed = <<>>
    /\ consumed = <<>>
    /\ produced = <<>>
    /\ popped = <<>>
    /\ rejected = {}
    /\ workflows = <<>>

\* Variant of the full test that lets one more event in.
push_full_off_by_one(tail, head) == tail - head > RING_SIZE

\* if (tail - head >= 256) return 0;
push_full(tail, head) == tail - head >= RING_SIZE

\* Variant of the empty test that lets a pop through at head = tail.
pop_empty_strict(head, tail) == head > tail

\* if (head >= tail) return 0;
pop_empty(head, tail) == head >= tail

\* Variant of the slot choice that writes one slot further.
push_slot_next(tail) == SlotIndex(tail + 1)

\* The slot push_event copies the event into.
push_slot(tail) == SlotIndex(tail)

\* Variant of the slot choice that copies from one slot further.
pop_slot_next(head) == SlotIndex(head + 1)

\* The slot pop_response copies the response from.
pop_slot(head) == SlotIndex(head)

\* The caller builds an event (ev.id = next_event_id++) and calls push_event.
PushCallNew ==
    /\ upc = "idle"
    /\ next_event_id <= MaxEvents
    /\ next_event_id' = next_event_id + 1
    /\ u' = [NoLocals EXCEPT !.ev = next_event_id]
    /\ upc' = "push_tail"
    /\ UNCHANGED <<event_ring, response_ring, pushed, consumed, produced, popped, rejected>>
    /\ UNCHANGED deckVars
    /\ UNCHANGED workflows

\* The caller retries an event whose push was rejected.
PushCallRetry ==
    /\ upc = "idle"
    /\ \E ev \in rejected :
          /\ ev \notin {pushed[i] : i \in 1 .. Len(pushed)}
          /\ u' = [NoLocals EXCEPT !.ev = ev]
    /\ upc' = "push_tail"
    /\ UNCHANGED <<event_ring, response_ring, next_event_id, pushed, consumed, produced,
                   popped, rejected>>
    /\ UNCHANGED deckVars
    /\ UNCHANGED workflows

\* uint64_t tail = event_ring->tail;
PushReadTail ==
    /\ upc = "push_tail"
    /\ u' = [u EXCEPT !.tail = event_ring.tail]
    /\ upc' = "push_head"
    /\ UNCHANGED <<event_ring, response_ring, next_event_id, pushed, consumed, produced,
                   popped, rejected>>
    /\ UNCHANGED deckVars
    /\ UNCHANGED workflows

\* uint64_t head = event_ring->head; if (tail - head >= 256) return 0;
PushReadHead ==
    /\ upc = "push_head"
    /\ LET head == event_ring.head IN
       IF push_full(u.tail, head)
       THEN /\ u' = [u EXCEPT !.head = head, !.result = 0]
            /\ upc' = "idle"
            /\ rejected' = rejected \cup {u.ev}
       ELSE /\ u' = [u EXCEPT !.head = head]
            /\ upc' = "push_copy"
            /\ UNCHANGED rejected
    /\ UNCHANGED <<event_ring, response_ring, next_event_id, pushed, consumed, produced,
                   popped>>
    /\ UNCHANGED deckVars
    /\ UNCHANGED workflows

\* The 32-quadword copy into events[tail & 0xFF].
PushCopy ==
    /\ upc = "push_copy"
    /\ event_ring' = [event_ring EXCEPT !.events[push_slot(u.tail)] = u.ev]
    /\ upc' = "push_publish"
    /\ UNCHANGED <<response_ring, next_event_id, u, pushed, consumed, produced, popped,
                   rejected>>
    /\ UNCHANGED deckVars
    /\ UNCHANGED workflows

\* Variant of the publishing step that also stores the head it read.
PushPublish_writing_head ==
    /\ upc = "push_publish"
    /\ event_ring' = [event_ring EXCEPT !.tail = u.tail + 1, !.head = u.head]
    /\ pushed' = Append(pushed, u.ev)
    /\ u' = [u EXCEPT !.result = 1]
    /\ upc' = "idle"
    /\ UNCHANGED <<response_ring, next_event_id, consumed, produced, popped, rejected>>
    /\ UNCHANGED deckVars
    /\ UNCHANGED workflows

\* mfence; event_ring->tail = tail + 1; return 1;
PushPublish ==
    /\ upc = "push_publish"
    /\ event_ring' = [event_ring EXCEPT !.tail = u.tail + 1]
    /\ pushed' = Append(pushed, u.ev)
    /\ u' = [u EXCEPT !.result = 1]
    /\ upc' = "idle"
    /\ UNCHANGED <<response_ring, next_event_id, consumed, produced, popped, rejected>>
    /\ UNCHANGED deckVars
    /\ UNCHANGED workflows

\* The caller calls pop_response.
PopCall ==
    /\ upc = "idle"
    /\ u' = NoLocals
    /\ upc' = "pop_head"
    /\ UNCHANGED <<event_ring, response_ring, next_event_id, pushed, consumed, produced,
                   popped, rejected>>
    /\ UNCHANGED deckVars
    /\ UNCHANGED workflows

\* uint64_t head = response_ring->head;
PopReadHead ==
    /\ upc = "pop_head"
    /\ u' = [u EXCEPT !.head = response_ring.head]
    /\ upc' = "pop_tail"
    /\ UNCHANGED <<event_ring, response_ring, next_event_id, pushed, consumed, produced,
                   popped, rejected>>
    /\ UNCHANGED deckVars
    /\ UNCHANGED workflows

\* uint64_t tail = response_ring->tail; if (head >= tail) return 0;
PopReadTail ==
    /\ upc = "pop_tail"
    /\ LET tail == response_ring.tail IN
       IF pop_empty(u.head, tail)
       THEN /\ u' = [u EXCEPT !.tail = tail, !.result = 0]
            /\ upc' = "idle"
       ELSE /\ u' = [u EXCEPT !.tail = tail]
            /\ upc' = "pop_copy"
    /\ UNCHANGED <<event_ring, response_ring, next_event_id, pushed, consumed, produced,
                   popped, rejected>>
    /\ UNCHANGED deckVars
    /\ UNCHANGED workflows

\* The copy out of responses[head & 0xFF].
PopCopy ==
    /\ upc = "pop_copy"
    /\ u' = [u EXCEPT !.resp = response_ring.responses[pop_slot(u.head)]]
    /\ upc' = "pop_release"
    /\ UNCHANGED <<event_ring, response_ring, next_event_id, pushed, consumed, produced,
                   popped, rejected>>
    /\ UNCHANGED deckVars
    /\ UNCHANGED workflows

\* mfence; response_ring->head = head + 1; return 1;
PopRelease ==
    /\ upc = "pop_release"
    /\ response_ring' = [response_ring EXCEPT !.head = u.head + 1]
    /\ popped' = Append(popped, u.resp)
    /\ u' = [u EXCEPT !.result = 1]
    /\ upc' = "idle"
    /\ UNCHANGED <<event_ring, next_event_id, pushed, consumed, produced, rejected>>
    /\ UNCHANGED deckVars
    /\ UNCHANGED workflows

\* Kernel consumer of the event ring: takes the slot at head if head is
\* below the tail it observes, then advances head.
KernelConsume ==
    /\ event_ring.head < event_ring.tail
    /\ consumed' = Append(consumed, event_ring.events[SlotIndex(event_ring.head)])
    /\ event_ring' = [event_ring EXCEPT !.head = @ + 1]
    /\ UNCHANGED <<response_ring, next_event_id, upc, u, pushed, produced, popped, rejected>>
    /\ UNCHANGED deckVars
    /\ UNCHANGED workflows

\* Kernel producer of the response ring: publishes the response to a consumed
\* event while fewer than the ring's slots are unconsumed.
KernelProduce ==
    /\ response_ring.tail - response_ring.head < RING_SIZE
    /\ \E i \in 1 .. Len(consumed) :
          /\ consumed[i] \notin {produced[j] : j \in 1 .. Len(produced)}
          /\ response_ring' =
                 [response_ring EXCEPT !.responses[SlotIndex(response_ring.tail)] = consumed[i],
                                       !.tail = @ + 1]
          /\ produced' = Append(produced, consumed[i])
    /\ UNCHANGED <<event_ring, next_event_id, upc, u, pushed, consumed, popped, rejected>>
    /\ UNCHANGED deckVars
    /\ UNCHANGED workflows

NextRing ==
    \/ PushCallNew
    \/ PushCallRetry
    \/ PushReadTail
    \/ PushReadHead
    \/ PushCopy
    \/ PushPublish
    \/ PopCall
    \/ PopReadHead
    \/ PopReadTail
    \/ PopCopy
    \/ PopRelease
    \/ KernelConsume
    \/ KernelProduce

(***************************************************************************)
(* The system: router submissions, the clock, the keyboard and the deck's  *)
(* two drivers.                                                            *)
(***************************************************************************)
Init ==
    /\ clock = 0
    /\ timers = [i \in Slots |-> Timer0]
    /\ next_timer_id = 1
    /\ entries = <<>>
    /\ queue = <<>>
    /\ responses = <<>>
    /\ vga = <<>>
    /\ kbd = <<>>
    /\ keys_pressed = 0
    /\ pc = "idle"
    /\ rl = NoReadLine
    /\ slept_at = <<>>
    /\ RingInit

\* The deck's functions leave a DeckState; the variables take it over.
Apply(st) ==
    /\ timers' = st.timers
    /\ next_timer_id' = st.next_timer_id
    /\ entries' = st.entries
    /\ responses' = st.responses
    /\ vga' = st.vga
    /\ kbd' = st.kbd

\* Router: a new RoutingEntry owning a copy of the event, queued on the deck.
Submit(ev, max) ==
    /\ UNCHANGED ringVars
    /\ UNCHANGED workflows
    /\ pc = "idle"
    /\ Len(entries) < max
    /\ Len(queue) < MaxQueue
    /\ entries' = Append(entries, [state |-> "PENDING",
                                   ev |-> [ev EXCEPT !.id = Len(entries) + 1]])
    /\ queue' = Append(queue, Len(entries) + 1)
    /\ slept_at' = Append(slept_at, -1)
    /\ UNCHANGED <<clock, timers, next_timer_id, responses, vga, kbd, keys_pressed,
                   pc, rl>>

Tick ==
    /\ UNCHANGED ringVars
    /\ UNCHANGED workflows
    /\ clock < MaxHalfMs
    /\ clock' = clock + 1
    /\ UNCHANGED <<timers, next_timer_id, entries, queue, responses, vga, kbd,
                   keys_pressed, pc, rl, slept_at>>

KeyPress(k) ==
    /\ UNCHANGED ringVars
    /\ UNCHANGED workflows
    /\ keys_pressed < MaxKeys
    /\ keys_pressed' = keys_pressed + 1
    /\ kbd' = Append(kbd, k)
    /\ UNCHANGED <<clock, timers, next_timer_id, entries, queue, responses, vga,
                   pc, rl, slept_at>>

\* deck_run_once(&hardware_deck_context): pops at most one entry and hands it
\* to the process callback.
deck_run_once(next_pc) ==
    IF queue = <<>>
    THEN /\ pc' = next_pc
         /\ UNCHANGED <<timers, next_timer_id, entries, queue, responses, vga, kbd, rl,
                        slept_at>>
    ELSE \E malloc_ok \in BOOLEAN, x \in {0, 79}, y \in {0, 24} :
           LET e == Head(queue)
               st == [DeckState EXCEPT !.entries[e].state = "PROCESSING"]
               r == hardware_deck_process(st, e, clock,
                                          [malloc_ok |-> malloc_ok, x |-> x, y |-> y])
           IN  /\ Apply(r.st)
               /\ queue' = Tail(queue)
               /\ rl' = r.rl
               /\ slept_at' = IF r.st.entries[e].state = "SUSPENDED"
                               THEN [slept_at EXCEPT ![e] = clock] ELSE slept_at
               /\ pc' = IF r.rl # NoReadLine THEN "readline" ELSE next_pc

\* hardware_deck_run_once, first half: timer_check_expired().
RunOnceSweep ==
    /\ UNCHANGED ringVars
    /\ UNCHANGED workflows
    /\ pc = "idle"
    /\ Apply(timer_check_expired(DeckState, clock))
    /\ pc' = "swept"
    /\ UNCHANGED <<clock, queue, keys_pressed, rl, slept_at>>

\* Variant of the second half that runs the timer sweep once more after the
\* entry was processed.
RunOnceProcess_then_sweep ==
    /\ UNCHANGED ringVars
    /\ UNCHANGED workflows
    /\ pc = "swept"
    /\ pc' = "idle"
    /\ rl' = rl
    /\ IF queue = <<>>
       THEN /\ Apply(timer_check_expired(DeckState, clock))
            /\ UNCHANGED <<queue, slept_at>>
       ELSE LET e == Head(queue)
                st == [DeckState EXCEPT !.entries[e].state = "PROCESSING"]
                r == hardware_deck_process(st, e, clock,
                                           [malloc_ok |-> TRUE, x |-> 0, y |-> 0])
            IN  /\ Apply(timer_check_expired(r.st, clock))
                /\ queue' = Tail(queue)
                /\ slept_at' = IF r.st.entries[e].state = "SUSPENDED"
                                THEN [slept_at EXCEPT ![e] = clock] ELSE slept_at
    /\ UNCHANGED <<clock, keys_pressed>>

\* hardware_deck_run_once, second half: deck_run_once().
RunOnceProcess ==
    /\ UNCHANGED ringVars
    /\ UNCHANGED workflows
    /\ pc = "swept"
    /\ deck_run_once("idle")
    /\ UNCHANGED <<clock, keys_pressed>>

\* hardware_deck_run: deck_run(), one iteration that finds an entry.
Run ==
    /\ UNCHANGED ringVars
    /\ UNCHANGED workflows
    /\ pc = "idle"
    /\ queue # <<>>
    /\ deck_run_once("idle")
    /\ UNCHANGED <<clock, keys_pressed>>

\* keyboard_getchar_blocking() returns inside EVENT_CONSOLE_READ_LINE.
ReadLineKey ==
    /\ UNCHANGED ringVars
    /\ UNCHANGED workflows
    /\ pc = "readline"
    /\ kbd # <<>>
    /\ LET r == ReadLineLoop(DeckState, rl)
       IN  /\ Apply(r.st)
           /\ rl' = r.rl
           /\ pc' = IF r.rl # NoReadLine THEN "readline" ELSE "idle"
    /\ UNCHANGED <<clock, queue, keys_pressed, slept_at>>

\* The timer subsystem under both drivers of the deck.
Next ==
    \/ \E ev \in TimerInputs : Submit(ev, MaxEntries)
    \/ Tick
    \/ RunOnceSweep
    \/ RunOnceProcess
    \/ Run

Spec == Init /\ [][Next]_vars

\* The whole deck: every event type and the keyboard, at one clock reading.
\* Up to MaxEntries events; one from outside TimerInputs is the last one.
OnlyTimerInputs ==
    \A e \in 1 .. Len(entries) : [entries[e].ev EXCEPT !.id = 0] \in TimerInputs

NextDeck ==
    \/ \E ev \in EventInputs : OnlyTimerInputs /\ Submit(ev, MaxEntries)
    \/ \E k \in Keys : KeyPress(k)
    \/ RunOnceSweep
    \/ RunOnceProcess
    \/ Run
    \/ ReadLineKey

SpecDeck == Init /\ [][NextDeck]_vars

\* The two rings between one user program and the kernel.
SpecRing == Init /\ [][NextRing]_vars

(***************************************************************************)
(* Properties.                                                             *)
(***************************************************************************)
Entries == 1 .. Len(entries)

\* Responses produced for entry e so far, in a given response log.
ResponsesOf(log, e) == {i \in 1 .. Len(log) : log[i].event_id = e}

\* Number of deck_complete / deck_error_detailed calls made so far for e.
Completes(log, e) == Cardinality({i \in ResponsesOf(log, e) : log[i].status = 0})

Fails(log, e) == Cardinality({i \in ResponsesOf(log, e) : log[i].status # 0})

\* The step is one timer sweep at clock reading `clock`.
IsSweep == pc = "idle" /\ pc' = "swept"

\* The step is keyboard_getchar_blocking() returning inside a console read-line.
IsReadLineKey == pc = "readline" /\ Len(kbd') < Len(kbd)

\* The step hands Head(queue) to hardware_deck_process.
IsProcess == queue # <<>> /\ queue' = Tail(queue)

\* C1: every entry ends in one terminal state or stays suspended: complete
\* and fail are never both invoked for an entry, neither twice, and an entry
\* for which one was invoked is, and stays, in the matching terminal state.
C1_OneTerminalState ==
    \A e \in Entries :
        /\ Completes(responses, e) + Fails(responses, e) <= 1
        /\ Completes(responses, e) = 1 => entries[e].state = "COMPLETED"
        /\ Fails(responses, e) = 1 => entries[e].state = "ERROR"
        /\ entries[e].state \in {"COMPLETED", "ERROR"}
               => Completes(responses, e) + Fails(responses, e) = 1

(***************************************************************************)
(* Sleep and wake.                                                         *)
(***************************************************************************)
\* Entry e was suspended by EVENT_TIMER_SLEEP and has not been woken.
Sleeping(e) ==
    entries[e].ev.type = EVENT_TIMER_SLEEP /\ entries[e].state = "SUSPENDED"

\* The clock reading is at or past the time e was suspended plus its
\* duration of entries[e].ev.a milliseconds, in cycles.
DeadlineReached(e) ==
    clock * HalfMs >= slept_at[e] * HalfMs + entries[e].ev.a * TICKS_PER_MS

\* The step changes entry e or produces a Response for it.
Touched(e) ==
    \/ entries'[e] # entries[e]
    \/ Completes(responses', e) # Completes(responses, e)
    \/ Fails(responses', e) # Fails(responses, e)

\* The step wakes entry e: SUSPENDED -> PROCESSING with one success Response.
Woken(e) ==
    /\ entries[e].state = "SUSPENDED"
    /\ entries'[e] = [entries[e] EXCEPT !.state = "PROCESSING"]
    /\ Completes(responses', e) = Completes(responses, e) + 1
    /\ Fails(responses', e) = Fails(responses, e)

\* Active timers carrying entry e, in a given table.
TimersOf(tab, e) == {i \in Slots : tab[i].active = 1 /\ tab[i].suspended_entry = e}

\* The step processes an EVENT_TIMER_CANCEL that names timer id.
CancelOf(id) ==
    /\ IsProcess
    /\ entries[Head(queue)].ev.type = EVENT_TIMER_CANCEL
    /\ entries[Head(queue)].ev.a = id

\* C2 as stated: a sweep below the deadline of a sleeping entry does not touch
\* it, the first sweep at or past the deadline wakes it, and no sweep touches
\* an entry that was woken before.
C2_WokenAtDeadline ==
    [][IsSweep =>
         \A e \in Entries :
             entries[e].ev.type = EVENT_TIMER_SLEEP =>
                 IF Sleeping(e) /\ DeadlineReached(e) THEN Woken(e) ELSE ~Touched(e)]_vars

\* C2, amended: a sleeping entry carries exactly one active one-shot timer
\* from the step that suspends it until that timer is cancelled by id or
\* fires; a sweep wakes the entry iff the deadline (suspension time plus D
\* ms, in cycles) is reached and the timer has not been cancelled; no other
\* sweep touches it, and it is woken at most once.
C2_WokenAtDeadlineUnlessCancelled ==
    [][\A e \in Entries :
         /\ entries[e].ev.type = EVENT_TIMER_SLEEP /\ IsSweep =>
                IF Sleeping(e) /\ DeadlineReached(e) /\ TimersOf(timers, e) # {}
                THEN Woken(e) /\ TimersOf(timers', e) = {}
                ELSE ~Touched(e)
         /\ ~Sleeping(e) /\ Sleeping(e)' =>
                /\ IsProcess /\ e = Head(queue) /\ slept_at'[e] = clock
                /\ \E i \in Slots :
                       /\ TimersOf(timers', e) = {i}
                       /\ timers'[i].interval = 0
                       /\ timers'[i].id \notin {timers[j].id : j \in Slots}
         /\ Sleeping(e) /\ TimersOf(timers, e) # {} /\ TimersOf(timers', e) # TimersOf(timers, e) =>
                \/ IsSweep /\ DeadlineReached(e)
                \/ \E i \in TimersOf(timers, e) : CancelOf(timers[i].id) /\ Sleeping(e)'
         /\ Sleeping(e) /\ TimersOf(timers, e) = {} => Sleeping(e)' /\ TimersOf(timers', e) = {}
         /\ Completes(responses', e) <= 1]_vars

\* A sleeping entry has been woken by a sweep at or past its deadline.
C2_Witness ==
    \E e \in Entries :
        /\ entries[e].ev.type = EVENT_TIMER_SLEEP
        /\ entries[e].state = "PROCESSING"
        /\ slept_at[e] >= 0
        /\ DeadlineReached(e)
        /\ Completes(responses, e) = 1
        /\ pc = "swept"

(***************************************************************************)
(* The deck contract.                                                      *)
(***************************************************************************)
\* Outcomes the step applies to entry e: Responses with status 0 (complete),
\* Responses with another status (fail), and the state SUSPENDED (suspend).
NewCompletes(e) == Completes(responses', e) - Completes(responses, e)

NewFails(e) == Fails(responses', e) - Fails(responses, e)

NewSuspends(e) ==
    IF entries[e].state # "SUSPENDED" /\ entries'[e].state = "SUSPENDED" THEN 1 ELSE 0

\* The step applies exactly one outcome to e and leaves e in its state.
OneOutcome(e) ==
    /\ NewCompletes(e) + NewFails(e) + NewSuspends(e) = 1
    /\ NewCompletes(e) = 1 => entries'[e].state = "COMPLETED"
    /\ NewFails(e) = 1 => entries'[e].state = "ERROR"

\* The step applies no outcome to e: the invocation is still in progress.
NoOutcome(e) ==
    /\ NewCompletes(e) + NewFails(e) + NewSuspends(e) = 0
    /\ entries'[e].state = "PROCESSING"

\* C3: every invocation of hardware_deck_process has applied exactly one of
\* complete, fail and suspend to its entry when it returns, whatever the event
\* type and payload, and none before it returns.
C3_ExactlyOneOutcome ==
    [][/\ IsProcess =>
            IF pc' = "readline" THEN NoOutcome(Head(queue)) ELSE OneOutcome(Head(queue))
       /\ IsReadLineKey =>
            IF pc' = "readline" THEN NoOutcome(rl.entry) ELSE OneOutcome(rl.entry)
       /\ \A e \in Entries :
            ~(IsProcess /\ e = Head(queue)) /\ ~(IsReadLineKey /\ e = rl.entry) /\ ~IsSweep
                => ~Touched(e)]_vars

\* Invocations have returned after each of the three outcomes, one of them a
\* console read-line that had to wait for the keyboard.
C3_Witness ==
    \E c, f, s \in Entries :
        /\ entries[c].state = "COMPLETED" /\ Completes(responses, c) = 1
        /\ entries[c].ev.type = EVENT_CONSOLE_READ_LINE /\ keys_pressed > 0
        /\ entries[f].state = "ERROR" /\ Fails(responses, f) = 1
        /\ entries[s].state = "SUSPENDED" /\ ResponsesOf(responses, s) = {}

(***************************************************************************)
(* Ring transport.                                                         *)
(***************************************************************************)
IsPrefix(s, t) == Len(s) <= Len(t) /\ s = SubSeq(t, 1, Len(s))

NoDuplicates(s) == \A i, j \in 1 .. Len(s) : s[i] = s[j] => i = j

\* C4: the kernel receives the events in the order push_event published
\* them, each once and none lost (what was consumed is a prefix of what was
\* pushed, and the slots from head to tail hold the rest, in order);
\* pop_response returns the responses in the order the kernel published
\* them, each once and none lost.
C4_RingFifo ==
    /\ NoDuplicates(pushed) /\ NoDuplicates(produced)
    /\ IsPrefix(consumed, pushed)
    /\ Len(consumed) = event_ring.head /\ Len(pushed) = event_ring.tail
    /\ \A k \in event_ring.head .. (event_ring.tail - 1) :
           event_ring.events[SlotIndex(k)] = pushed[k + 1]
    /\ IsPrefix(popped, produced)
    /\ Len(popped) = response_ring.head /\ Len(produced) = response_ring.tail
    /\ \A k \in response_ring.head .. (response_ring.tail - 1) :
           response_ring.responses[SlotIndex(k)] = produced[k + 1]

\* Both rings have wrapped around, and the responses came back in another
\* order than the events went in.
C4_Witness ==
    /\ Len(consumed) > RING_SIZE
    /\ Len(popped) > RING_SIZE
    /\ popped # SubSeq(pushed, 1, Len(popped))

\* The step is a step of the user program inside push_event or pop_response.
IsUserStep == upc' # upc

\* C5: a push_event that finds the ring full (tail - head >= capacity when it
\* reads head) returns 0 in that step, writes no slot and leaves head and
\* tail unchanged, so without draining no more than capacity pushes succeed;
\* a push that finds room, a retry of a rejected event included, publishes
\* the event at tail and advances tail by one.
C5_FullRingRejects ==
    [][/\ IsUserStep /\ upc = "push_head" =>
            IF event_ring.tail - event_ring.head >= RING_SIZE
            THEN /\ upc' = "idle" /\ u'.result = 0
                 /\ event_ring' = event_ring /\ pushed' = pushed
            ELSE upc' = "push_copy" /\ event_ring' = event_ring
       /\ IsUserStep /\ upc = "push_tail" => event_ring' = event_ring
       /\ IsUserStep /\ upc = "push_copy" =>
            /\ upc' = "push_publish"
            /\ event_ring'.head = event_ring.head /\ event_ring'.tail = event_ring.tail
       /\ IsUserStep /\ upc = "push_publish" =>
            /\ upc' = "idle" /\ u'.result = 1
            /\ pushed' = Append(pushed, u.ev)
            /\ event_ring'.tail = event_ring.tail + 1
            /\ event_ring'.events[SlotIndex(event_ring.tail)] = u.ev
       /\ event_ring.head = 0 => Len(pushed) <= RING_SIZE]_vars

\* An event was rejected by a full, undrained ring, and its retry succeeded
\* after the kernel had consumed one event.
C5_Witness ==
    /\ Len(consumed) = 1
    /\ Len(pushed) = RING_SIZE + 1
    /\ pushed[RING_SIZE + 1] \in rejected

\* C6: both rings satisfy 0 <= tail - head <= capacity in every state.
C6_RingBounds ==
    /\ 0 <= event_ring.tail - event_ring.head
    /\ event_ring.tail - event_ring.head <= RING_SIZE
    /\ 0 <= response_ring.tail - response_ring.head
    /\ response_ring.tail - response_ring.head <= RING_SIZE

\* The response ring is full while the event ring, having been full, is
\* drained and a pop is in progress.
C6_Witness ==
    /\ response_ring.tail - response_ring.head = RING_SIZE
    /\ event_ring.tail = event_ring.head /\ event_ring.head >= RING_SIZE
    /\ rejected # {}
    /\ upc = "pop_tail"

C8_SleepSuspends ==
    [][IsProcess =>
         LET e == Head(queue) IN
         /\ entries[e].ev.type = EVENT_TIMER_SLEEP
         /\ entries[e].ev.a \in 1 .. MAX_DELAY_MS
         /\ \E i \in Slots : timers[i].active = 0
         => /\ pc' = "idle" /\ clock' = clock
            /\ entries'[e].state = "SUSPENDED"
            /\ responses' = responses
            /\ \E i \in Slots :
                   /\ timers[i].active = 0
                   /\ timers'[i].active = 1
                   /\ timers'[i].interval = 0
                   /\ timers'[i].suspended_entry = e
                   /\ \A j \in Slots \ {i} : timers'[j] = timers[j]
                   /\ TimersOf(timers', e) = {i}]_vars

\* A sleep of the longest duration allowed has been suspended on the last
\* free slot, next to a timer created before it.
C8_Witness ==
    \E e \in Entries :
        /\ entries[e].ev.type = EVENT_TIMER_SLEEP
        /\ entries[e].ev.a = MAX_DELAY_MS
        /\ entries[e].state = "SUSPENDED"
        /\ ResponsesOf(responses, e) = {}
        /\ TimersOf(timers, e) # {}
        /\ \A i \in Slots : timers[i].active = 1

\* Slot i is active and expired at the current clock reading.
Expired(i) == timers[i].active = 1 /\ timers[i].expiration <= clock

\* C9: one sweep, for every active slot with expiration <= now, wakes the
\* linked entry if there is one and clears the link, then reschedules the
\* slot to now + interval if interval > 0 and deactivates it otherwise; every
\* other slot is unchanged, and no entry is touched except the ones linked
\* to expired slots.
C9_SweepPerSlot ==
    [][IsSweep =>
         /\ \A i \in Slots :
               LET t == timers[i] IN
               IF Expired(i)
               THEN /\ t.suspended_entry # NULL => Woken(t.suspended_entry)
                    /\ timers'[i] =
                           IF t.interval > 0
                           THEN [t EXCEPT !.suspended_entry = NULL,
                                          !.expiration = clock + t.interval]
                           ELSE [t EXCEPT !.suspended_entry = NULL, !.active = 0]
               ELSE timers'[i] = t
         /\ \A e \in Entries :
               (\A i \in Slots : ~(Expired(i) /\ timers[i].suspended_entry = e)) => ~Touched(e)
         /\ Len(responses') =
               Len(responses) + Cardinality({i \in Slots : Expired(i) /\ timers[i].suspended_entry # NULL})
         /\ next_timer_id' = next_timer_id /\ clock' = clock]_vars

\* One sweep has fired an unlinked one-shot timer (now inactive) and
\* rescheduled a periodic one, and no entry has been woken.
C9_Witness ==
    /\ pc = "swept"
    /\ \E i, j \in Slots :
          /\ timers[i].id # 0 /\ timers[i].active = 0 /\ timers[i].interval = 0
          /\ timers[i].owner_workflow_id = 0 /\ timers[i].expiration = clock
          /\ timers[j].active = 1 /\ timers[j].interval > 0
          /\ timers[j].expiration = clock + timers[j].interval
    /\ \A e \in Entries :
          entries[e].ev.type = EVENT_TIMER_CREATE /\ entries[e].state = "COMPLETED"

\* The last Response in the log is for entry e with this status and code.
LastResponse(e, status, error_code) ==
    /\ responses' # <<>>
    /\ responses'[Len(responses')].event_id = e
    /\ responses'[Len(responses')].status = status
    /\ responses'[Len(responses')].error_code = error_code

\* C10: an EVENT_TIMER_CANCEL with the id of an active timer deactivates
\* exactly that timer and completes the cancelling entry with success; with
\* a non-zero id of no active timer it fails the entry with timer-not-found
\* and leaves the timer table unchanged.
C10_Cancel ==
    [][IsProcess =>
         LET e == Head(queue)
             id == entries[e].ev.a
             hit == {i \in Slots : timers[i].active = 1 /\ timers[i].id = id}
         IN  entries[e].ev.type = EVENT_TIMER_CANCEL /\ id # 0 =>
                 /\ Cardinality(hit) <= 1
                 /\ NewCompletes(e) + NewFails(e) = 1
                 /\ Len(responses') = Len(responses) + 1
                 /\ IF hit = {}
                    THEN /\ timers' = timers
                         /\ entries'[e].state = "ERROR"
                         /\ LastResponse(e, 1, "ERROR_HW_TIMER_NOT_FOUND")
                    ELSE /\ \E i \in hit : timers' = [timers EXCEPT ![i].active = 0]
                         /\ entries'[e].state = "COMPLETED"
                         /\ LastResponse(e, 0, "ERROR_NONE")]_vars

\* One cancel has deactivated an unlinked timer while the other timer stays
\* active, and a second cancel of the same id has failed.
C10_Witness ==
    \E c, f \in Entries :
        /\ c < f
        /\ entries[c].ev.type = EVENT_TIMER_CANCEL /\ entries[c].state = "COMPLETED"
        /\ entries[f].ev.type = EVENT_TIMER_CANCEL /\ entries[f].state = "ERROR"
        /\ entries[f].ev.a = entries[c].ev.a
        /\ \E i \in Slots :
              /\ timers[i].id = entries[c].ev.a /\ timers[i].active = 0
              /\ timers[i].suspended_entry = NULL /\ timers[i].owner_workflow_id = 0

(***************************************************************************)
(* Cancelled sleeps, timer lifetimes.                                      *)
(***************************************************************************)
\* Entry e sleeps and no active timer carries it: its timer was cancelled.
Orphaned(e) == Sleeping(e) /\ TimersOf(timers, e) = {}

\* C11: once the timer of a sleeping entry is cancelled the entry stays
\* SUSPENDED: a sleeping entry loses its active timer without being woken
\* only through a cancel of that timer's id, and from then on no step (sweep,
\* timer creation, also one reusing the slot, or cancel) changes the entry,
\* produces a Response for it or links an active timer to it.
C11_CancelledSleepStays ==
    [][\A e \in Entries :
         /\ Sleeping(e) /\ ~Orphaned(e) /\ Orphaned(e)' =>
                \E i \in TimersOf(timers, e) : CancelOf(timers[i].id)
         /\ Orphaned(e) => ~Touched(e) /\ Orphaned(e)']_vars

\* A sleeping entry whose timer was cancelled is still suspended after a
\* sweep past its deadline, its slot having been taken by a later timer.
C11_Witness ==
    \E e \in Entries :
        /\ Orphaned(e)
        /\ DeadlineReached(e)
        /\ pc = "swept"
        /\ \A i \in Slots : timers[i].suspended_entry # e
        /\ \E i \in Slots : timers[i].id = 3

\* C12: a one-shot timer is inactive after the first sweep at or past its
\* expiration, and an inactive slot is not fired by any sweep and becomes
\* active again only as a new timer with a fresh id; a periodic timer stays
\* active through every sweep, a sweep that fires it moves its expiration
\* strictly forward (to now + interval), and it becomes inactive only in the
\* step that processes a cancel carrying its id.
C12_TimerLifetimes ==
    [][\A i \in Slots :
         LET t == timers[i] IN
         /\ t.active = 1 /\ t.interval = 0 /\ IsSweep /\ Expired(i) => timers'[i].active = 0
         /\ t.active = 1 /\ t.interval > 0 /\ IsSweep =>
                /\ timers'[i].active = 1 /\ timers'[i].id = t.id
                /\ timers'[i].interval = t.interval
                /\ IF Expired(i)
                   THEN /\ timers'[i].expiration > t.expiration
                        /\ timers'[i].expiration = clock + t.interval
                   ELSE timers'[i].expiration = t.expiration
         /\ t.active = 1 /\ t.interval > 0 /\ timers'[i].active = 0 => CancelOf(t.id)
         /\ t.active = 0 /\ IsSweep => timers'[i] = t
         /\ t.active = 0 /\ timers'[i].active = 1 =>
                /\ IsProcess
                /\ \A j \in Slots : timers'[i].id > timers[j].id]_vars

\* After a sweep, a one-shot timer fired by an earlier sweep is still
\* inactive and a periodic timer that has fired is active with a later
\* expiration.
C12_Witness ==
    /\ pc = "swept"
    /\ \E i, j \in Slots :
          /\ timers[i].id # 0 /\ timers[i].active = 0 /\ timers[i].interval = 0
          /\ timers[i].expiration < clock
          /\ timers[j].active = 1 /\ timers[j].interval > 0
          /\ timers[j].expiration > MsToTicks(1) + timers[j].interval
    /\ \A e \in Entries : entries[e].ev.type # EVENT_TIMER_CANCEL

(***************************************************************************)
(* Progress of sleeps under each driver.                                   *)
(***************************************************************************)
\* The scheduler drives the deck by calling hardware_deck_run_once again and
\* again; the clock advances (up to MaxHalfMs) and both halves of a pass are
\* taken whenever they can be.
NextRunOnce ==
    \/ \E ev \in TimerInputs : Submit(ev, MaxEntries)
    \/ Tick
    \/ RunOnceSweep
    \/ RunOnceProcess

SpecRunOnce ==
    /\ Init /\ [][NextRunOnce]_vars
    /\ WF_vars(Tick) /\ WF_vars(RunOnceSweep) /\ WF_vars(RunOnceProcess)

\* The scheduler drives the deck by calling hardware_deck_run, which does
\* not return: deck_run takes every queued entry, and nothing else runs.
NextRun ==
    \/ \E ev \in TimerInputs : Submit(ev, MaxEntries)
    \/ Tick
    \/ Run

SpecRun == Init /\ [][NextRun]_vars /\ WF_vars(Tick) /\ WF_vars(Run)

\* Entry e sleeps on an active timer and the clock has reached its deadline.
Due(e) == e \in Entries /\ Sleeping(e) /\ ~Orphaned(e) /\ DeadlineReached(e)

\* Entry e has been woken and a success Response for it exists.
WokenWithResponse(e) ==
    e \in Entries /\ entries[e].state # "SUSPENDED" /\ Completes(responses, e) >= 1

\* C13: under fair driving of the deck and an advancing clock, every
\* sleep-suspended entry whose deadline is reached is eventually woken with
\* a Response, unless its timer is cancelled first.
C13_SleepersWake ==
    \A e \in 1 .. MaxEntries :
        Due(e) ~> (WokenWithResponse(e) \/ (e \in Entries /\ Orphaned(e)))

\* Why no step under hardware_deck_run can help, at any clock reading: no
\* step of that driver changes a sleeping entry or produces a Response for it.
C13_RunNeverWakes == [][\A e \in Entries : Sleeping(e) => ~Touched(e)]_vars

\* A sleep whose deadline is reached while hardware_deck_run drives the deck.
C13_DueUnderRun == \E e \in 1 .. MaxEntries : Due(e) /\ pc = "idle" /\ queue = <<>>

(***************************************************************************)
(* Termination of the process callback.                                    *)
(***************************************************************************)
\* An invocation of hardware_deck_process is inside
\* keyboard_getchar_blocking() and no key is waiting.
WaitsForKey == pc = "readline" /\ kbd = <<>>

\* C14: no invocation of hardware_deck_process waits on a condition outside
\* the invocation: there is no state in which the handler of any event type
\* has been entered, has not returned to the dispatcher, and needs a key
\* press to go on.
C14_ProcessNeverWaits == ~WaitsForKey

(***************************************************************************)
(* Failures of the deck.                                                   *)
(***************************************************************************)
\* The step fails entry e with error_code and does nothing else: one error
\* Response, state ERROR, timer table, console and keyboard as they were.
FailsOnly(e, error_code) ==
    /\ NewFails(e) = 1 /\ NewCompletes(e) = 0
    /\ LastResponse(e, 1, error_code)
    /\ entries'[e].state = "ERROR"
    /\ timers' = timers /\ next_timer_id' = next_timer_id
    /\ vga' = vga /\ kbd' = kbd
    /\ pc' # "readline"

InRange(type) == type >= 40 /\ type < 80

\* C15: an event whose type is below 40 or at least 80 is failed with the
\* invalid-parameter error before any handler runs: the timer table is
\* unchanged, no console or keyboard call is made, and the entry ends in
\* ERROR with one error Response.
C15_OutOfRangeRejected ==
    [][IsProcess /\ ~InRange(entries[Head(queue)].ev.type) =>
           FailsOnly(Head(queue), "ERROR_INVALID_PARAMETER")]_vars

\* An event of a type outside 40..79 has just been rejected while a timer
\* was active and nothing had been printed.
C15_Witness ==
    /\ \E e \in Entries :
          /\ ~InRange(entries[e].ev.type)
          /\ entries[e].state = "ERROR"
          /\ responses[Len(responses)].event_id = e
          /\ responses[Len(responses)].error_code = "ERROR_INVALID_PARAMETER"
    /\ \E i \in Slots : timers[i].active = 1
    /\ vga = <<>>

(***************************************************************************)
(* Console write.                                                          *)
(***************************************************************************)
\* The console calls that print bytes 0 .. n-1 of a payload string, in order.
Emission(str, n) ==
    [i \in 1 .. n |-> IF ByteAt(str, i - 1) = 10
                      THEN <<"newline">>
                      ELSE <<"char", ByteAt(str, i - 1), VGA_DEFAULT>>]

\* The step processes an EVENT_CONSOLE_WRITE whose length field is valid.
IsConsoleWrite ==
    /\ IsProcess
    /\ entries[Head(queue)].ev.type = EVENT_CONSOLE_WRITE
    /\ entries[Head(queue)].ev.a \in 1 .. (EVENT_DATA_SIZE - 4)

\* Characters the step printed.
Emitted ==
    Cardinality({i \in (Len(vga) + 1) .. Len(vga') : vga'[i][1] \in {"char", "newline"}})

\* C16: an EVENT_CONSOLE_WRITE with length field n in 1 .. 220 prints exactly
\* the n payload characters in payload order (a line feed as a newline) and
\* completes the entry with the inline value n, so that the value reported
\* equals the number of characters printed.
C16_ConsoleWriteEmitsN ==
    [][IsConsoleWrite =>
         LET e == Head(queue)
             n == entries[e].ev.a
         IN  /\ vga' = vga \o Emission(entries[e].ev.str, n) \o <<<<"update_cursor">>>>
             /\ NewCompletes(e) = 1 /\ NewFails(e) = 0
             /\ LastResponse(e, 0, "ERROR_NONE")
             /\ responses'[Len(responses')].result_type = "RESULT_TYPE_VALUE"
             /\ responses'[Len(responses')].result = n
             /\ responses'[Len(responses')].result = Emitted]_vars

\* What the handler does when no byte among the first n is 0: the case of
\* the property above that the code meets.
C16_ConsoleWriteNoNul ==
    [][IsConsoleWrite =>
         LET e == Head(queue)
             n == entries[e].ev.a
         IN  (\A i \in 0 .. (n - 1) : ByteAt(entries[e].ev.str, i) # 0) =>
                 /\ vga' = vga \o Emission(entries[e].ev.str, n) \o <<<<"update_cursor">>>>
                 /\ responses'[Len(responses')].result = n
                 /\ Emitted = n]_vars

(***************************************************************************)
(* Validation of timer requests.                                           *)
(***************************************************************************)
IsTimerRequest(e) == entries[e].ev.type \in {EVENT_TIMER_CREATE, EVENT_TIMER_SLEEP}

\* The delay or duration of e is 0 or above one hour, or e is a create whose
\* interval is above one hour.
InvalidTimerRequest(e) ==
    /\ IsTimerRequest(e)
    /\ \/ entries[e].ev.a = 0
       \/ entries[e].ev.a > MAX_DELAY_MS
       \/ entries[e].ev.type = EVENT_TIMER_CREATE /\ entries[e].ev.b > MAX_DELAY_MS

\* C17: EVENT_TIMER_CREATE with delay 0, delay above 3,600,000 ms or interval
\* above 3,600,000 ms, and EVENT_TIMER_SLEEP with duration 0 or above
\* 3,600,000 ms, fail the entry with the invalid-parameter error; no timer
\* slot is allocated or modified and the entry is not suspended. Requests
\* within these limits are not failed with that error.
C17_TimerValidation ==
    [][IsProcess /\ IsTimerRequest(Head(queue)) =>
         LET e == Head(queue) IN
         IF InvalidTimerRequest(e)
         THEN FailsOnly(e, "ERROR_INVALID_PARAMETER") /\ NewSuspends(e) = 0
         ELSE ~LastResponse(e, 1, "ERROR_INVALID_PARAMETER")]_vars

\* A create whose interval is above one hour has just been rejected while a
\* sleep was suspended on an active timer.
C17_Witness ==
    \E e, z \in Entries :
        /\ entries[e].ev.type = EVENT_TIMER_CREATE
        /\ entries[e].ev.a = 1 /\ entries[e].ev.b > MAX_DELAY_MS
        /\ entries[e].state = "ERROR"
        /\ responses[Len(responses)].event_id = e
        /\ responses[Len(responses)].error_code = "ERROR_INVALID_PARAMETER"
        /\ Sleeping(z) /\ ~Orphaned(z)

(***************************************************************************)
(* A full timer table.                                                     *)
(***************************************************************************)
\* Entries of a run long enough to fill the table, be refused, free a slot
\* and ask again.
MaxRetryEntries == 4

NextRetry ==
    \/ \E ev \in TimerInputs : Submit(ev, MaxRetryEntries)
    \/ Tick
    \/ RunOnceSweep
    \/ RunOnceProcess

SpecRetry == Init /\ [][NextRetry]_vars

TableFull == \A i \in Slots : timers[i].active = 1

\* C18: when every timer slot is active, a valid EVENT_TIMER_CREATE or
\* EVENT_TIMER_SLEEP fails the entry with the timer-slots-full error, leaves
\* the timer table unchanged and does not suspend the entry; the refusal
\* leaves nothing behind, and the same request succeeds (a create completes,
\* a sleep suspends, one slot is taken) whenever a slot is inactive.
C18_SlotsFull ==
    [][IsProcess /\ IsTimerRequest(Head(queue)) /\ ~InvalidTimerRequest(Head(queue)) =>
         LET e == Head(queue) IN
         IF TableFull
         THEN /\ FailsOnly(e, "ERROR_HW_TIMER_SLOTS_FULL")
              /\ NewSuspends(e) = 0 /\ entries'[e].state # "SUSPENDED"
         ELSE /\ NewFails(e) = 0
              /\ IF entries[e].ev.type = EVENT_TIMER_SLEEP
                 THEN NewSuspends(e) = 1 /\ NewCompletes(e) = 0
                 ELSE NewCompletes(e) = 1 /\ entries'[e].state = "COMPLETED"
              /\ \E i \in Slots :
                    /\ timers[i].active = 0 /\ timers'[i].active = 1
                    /\ \A j \in Slots \ {i} : timers'[j] = timers[j]]_vars

\* A request was refused with the table full and the same request, made
\* again after a slot had become inactive, succeeded.
C18_Witness ==
    \E f, g \in Entries :
        /\ f < g
        /\ entries[f].ev.type = entries[g].ev.type
        /\ entries[f].ev.a = entries[g].ev.a /\ entries[f].ev.b = entries[g].ev.b
        /\ IsTimerRequest(f)
        /\ entries[f].state = "ERROR"
        /\ \E r \in ResponsesOf(responses, f) :
              responses[r].error_code = "ERROR_HW_TIMER_SLOTS_FULL"
        /\ entries[g].state \in {"COMPLETED", "SUSPENDED"}
        /\ Fails(responses, g) = 0

(***************************************************************************)
(* Types without a handler.                                                *)
(***************************************************************************)
\* The case labels of the switch of hardware_deck_process.
HandledTypes ==
    {EVENT_TIMER_CREATE, EVENT_TIMER_CANCEL, EVENT_TIMER_SLEEP, EVENT_TIMER_GETTICKS,
     EVENT_DEV_OPEN, EVENT_DEV_IOCTL, EVENT_DEV_READ, EVENT_DEV_WRITE,
     EVENT_CONSOLE_WRITE, EVENT_CONSOLE_WRITE_ATTR, EVENT_CONSOLE_READ_LINE,
     EVENT_CONSOLE_READ_CHAR, EVENT_CONSOLE_CLEAR, EVENT_CONSOLE_SET_POS,
     EVENT_CONSOLE_GET_POS}

UnhandledTypes == {t \in 40 .. 79 : t \notin HandledTypes}

\* Every type of the deck's range that has no handler, among timer requests
\* that succeed and that fail.
UnhandledInputs ==
    {Ev(t, 0, 0, <<>>) : t \in UnhandledTypes}
    \cup {Ev(EVENT_TIMER_CREATE, 1, 0, <<>>), Ev(EVENT_TIMER_SLEEP, 1, 0, <<>>),
          Ev(EVENT_TIMER_CANCEL, 3, 0, <<>>)}

NextUnhandled ==
    \/ \E ev \in UnhandledInputs : Submit(ev, MaxEntries)
    \/ RunOnceSweep
    \/ RunOnceProcess
    \/ Run

SpecUnhandled == Init /\ [][NextUnhandled]_vars

\* C19: an event whose type is in 40..79 and has no handler is failed with
\* the not-implemented error; this and every other failure of the deck is
\* confined to its entry: the entry ends in ERROR with one error Response,
\* the timer table and every other entry are unchanged, and the dispatcher
\* is back where it takes the next entry.
C19_NotImplemented ==
    [][IsProcess =>
         LET e == Head(queue) IN
         /\ entries[e].ev.type \in UnhandledTypes => FailsOnly(e, "ERROR_NOT_IMPLEMENTED")
         /\ NewFails(e) > 0 =>
                /\ NewFails(e) = 1 /\ NewCompletes(e) = 0
                /\ entries'[e].state = "ERROR"
                /\ timers' = timers
                /\ \A o \in Entries \ {e} : ~Touched(o)
                /\ pc' = "idle"]_vars

\* An event without a handler was failed with not-implemented and an entry
\* submitted after it has been processed and completed.
C19_Witness ==
    \E f, g \in Entries :
        /\ f < g
        /\ entries[f].ev.type \in UnhandledTypes
        /\ entries[f].state = "ERROR"
        /\ \E r \in ResponsesOf(responses, f) :
              responses[r].error_code = "ERROR_NOT_IMPLEMENTED"
        /\ entries[g].state = "COMPLETED" /\ Completes(responses, g) = 1
        /\ \E i \in Slots : timers[i].active = 1

(***************************************************************************)
(* The copy loop of push_event over the bytes of an Event.                 *)
(***************************************************************************)
MAX_ROUTING_STEPS == 8

\* for (int i = 0; i < 32; i++) dst[i] = src[i];
COPY_QWORDS == 32

\* The members of the packed struct Event, in order, with their sizes in bytes.
EventFields ==
    <<[name |-> "id", size |-> 8],
      [name |-> "user_id", size |-> 8],
      [name |-> "type", size |-> 4],
      [name |-> "_pad", size |-> 4],
      [name |-> "timestamp", size |-> 8],
      [name |-> "route", size |-> MAX_ROUTING_STEPS],
      [name |-> "data", size |-> EVENT_DATA_SIZE]>>

\* Offset of the member after the first k members of a packed struct.
RECURSIVE OffsetAfter(_, _)
OffsetAfter(fields, k) ==
    IF k = 0 THEN 0 ELSE OffsetAfter(fields, k - 1) + fields[k].size

sizeof_Event == OffsetAfter(EventFields, Len(EventFields))

EventBytes == 0 .. (sizeof_Event - 1)

\* The bytes of member k of an Event.
FieldBytes(k) ==
    OffsetAfter(EventFields, k - 1) .. (OffsetAfter(EventFields, k) - 1)

\* Events and stale slot contents as byte images; no byte of an event
\* equals the byte at the same offset of the slot it is copied to.
EventImage(k) == [o \in EventBytes |-> ((o * k) % 251) + 1]

StaleImages == {[o \in EventBytes |-> 0], [o \in EventBytes |-> 255]}

\* push_event has found the ring not full: ev points to an event, slot idx
\* of the ring holds what was there before, and the loop starts at i = 0.
InitCopy ==
    /\ clock = 0
    /\ timers = [i \in Slots |-> Timer0]
    /\ next_timer_id = 1
    /\ entries = <<>>
    /\ queue = <<>>
    /\ responses = <<>>
    /\ vga = <<>>
    /\ kbd = <<>>
    /\ keys_pressed = 0
    /\ pc = "idle"
    /\ rl = NoReadLine
    /\ slept_at = <<>>
    /\ \E tail \in 0 .. (2 * RING_SIZE - 1), k \in {1, 3}, stale \in StaleImages :
          /\ event_ring = [head |-> tail, tail |-> tail,
                           events |-> [s \in RingSlots |-> stale]]
          /\ u = [ev |-> EventImage(k), tail |-> tail, head |-> tail, i |-> 0]
    /\ response_ring = [head |-> 0, tail |-> 0, responses |-> [i \in RingSlots |-> 0]]
    /\ next_event_id = 1
    /\ upc = "push_copy_loop"
    /\ pushed = <<>>
    /\ consumed = <<>>
    /\ produced = <<>>
    /\ popped = <<>>
    /\ rejected = <<>>
    /\ workflows = <<>>

\* One iteration of the loop: quadword i of the event goes to quadword i of
\* the slot.
CopyQword ==
    /\ upc = "push_copy_loop"
    /\ u.i < COPY_QWORDS
    /\ event_ring' =
           [event_ring EXCEPT !.events[SlotIndex(u.tail)] =
                [o \in EventBytes |-> IF o \div 8 = u.i THEN u.ev[o] ELSE @[o]]]
    /\ u' = [u EXCEPT !.i = @ + 1]
    /\ UNCHANGED <<deckVars, workflows, response_ring, next_event_id, upc, pushed, consumed,
                   produced, popped, rejected>>

NextCopy == CopyQword

SpecCopy == InitCopy /\ [][NextCopy]_vars

\* The copy loop of push_event has run to its end.
CopyDone == upc = "push_copy_loop" /\ u.i = COPY_QWORDS

\* Member k of the event is in the slot, byte for byte.
FieldTransferred(k) ==
    \A o \in FieldBytes(k) : event_ring.events[SlotIndex(u.tail)][o] = u.ev[o]

\* C20: the Event record is exactly 256 bytes, the sum of its packed
\* fields, so that when the 32-quadword copy of push_event has run, every
\* field of the event, with all EVENT_DATA_SIZE payload bytes, is in the
\* ring slot.
C20_CopyTransfersEvent ==
    CopyDone =>
        /\ sizeof_Event = 256
        /\ sizeof_Event = 8 * COPY_QWORDS
        /\ \A k \in 1 .. Len(EventFields) : FieldTransferred(k)

\* What the loop does transfer: every member before the payload, and the
\* payload bytes below offset 8 * COPY_QWORDS of the record.
C20_CopiedPrefix ==
    CopyDone =>
        /\ \A k \in 1 .. (Len(EventFields) - 1) : FieldTransferred(k)
        /\ \A o \in EventBytes :
              (event_ring.events[SlotIndex(u.tail)][o] = u.ev[o]) <=> o < 8 * COPY_QWORDS

(***************************************************************************)
(* Length fields and payload reads.                                        *)
(***************************************************************************)
LengthChecked == {EVENT_CONSOLE_WRITE, EVENT_CONSOLE_WRITE_ATTR, EVENT_DEV_WRITE}

\* A string region filled with n characters 'h'.
FullString(n) == [i \in 1 .. n |-> 104]

\* Console writes and device writes with length fields 0, 1, at the limit
\* and one above it; the writes at the limit with a string region that is
\* full, and with one that ends early.
LengthInputs ==
    {Ev(EVENT_CONSOLE_WRITE, n, 0, <<104, 105>>) :
         n \in {0, 1, EVENT_DATA_SIZE - 4, EVENT_DATA_SIZE - 3}}
    \cup {Ev(EVENT_CONSOLE_WRITE_ATTR, n, 12, <<104, 10>>) :
              n \in {0, 1, EVENT_DATA_SIZE - 5, EVENT_DATA_SIZE - 4}}
    \cup {Ev(EVENT_CONSOLE_WRITE, EVENT_DATA_SIZE - 4, 0, FullString(EVENT_DATA_SIZE - 4)),
          Ev(EVENT_CONSOLE_WRITE_ATTR, EVENT_DATA_SIZE - 5, 12,
             FullString(EVENT_DATA_SIZE - 5)),
          Ev(EVENT_CONSOLE_WRITE, EVENT_DATA_SIZE - 3, 0, FullString(EVENT_DATA_SIZE - 3)),
          Ev(EVENT_DEV_WRITE, -1, 1, <<>>)}
    \cup {Ev(EVENT_DEV_WRITE, 100, n, <<>>) :
              n \in {0, 1, EVENT_DATA_SIZE - 12, EVENT_DATA_SIZE - 11}}

NextLength ==
    \/ \E ev \in LengthInputs : Submit(ev, MaxEntries)
    \/ RunOnceSweep
    \/ RunOnceProcess
    \/ Run

SpecLength == Init /\ [][NextLength]_vars

\* Bytes of data[] before the string or data region of the payload.
HeaderSize(type) ==
    CASE type = EVENT_CONSOLE_WRITE -> 4
      [] type = EVENT_CONSOLE_WRITE_ATTR -> 5
      [] type = EVENT_DEV_WRITE -> 12

\* The length field of entry e: the size of the string or data region.
LengthField(e) ==
    IF entries[e].ev.type = EVENT_DEV_WRITE THEN entries[e].ev.b ELSE entries[e].ev.a

\* Largest length the claim says is accepted.
LengthLimit(type) ==
    CASE type = EVENT_CONSOLE_WRITE -> 220
      [] type = EVENT_CONSOLE_WRITE_ATTR -> 219
      [] type = EVENT_DEV_WRITE -> 212

\* Offsets of data[] that the loop for (i = 0; i < size && str[i]; i++)
\* reads, str being data + base: str[i] is read in every test with i < size,
\* up to and including the test that ends the loop.
LoopReads(str, size, base) ==
    LET end == LoopEnd(str, size, 0)
    IN  base .. (base + (IF end < size THEN end ELSE size - 1))

\* Offsets of data[] read by the step that processes entry e: the header,
\* then the bytes the print loop tests or the region handed to device_write.
PayloadReads(e) ==
    LET type == entries[e].ev.type
        header == 0 .. (HeaderSize(type) - 1)
        last == vga'[Len(vga')]
    IN  IF vga' = vga THEN header
        ELSE IF type = EVENT_DEV_WRITE
        THEN header \cup (last[3] .. (last[3] + last[4] - 1))
        ELSE header \cup LoopReads(entries[e].ev.str, LengthField(e), HeaderSize(type))

\* C21: for console-write, console-write-attr and device-write events a zero
\* length or a length above 220, 219 and 212 bytes respectively fails the
\* entry with invalid-parameter with no character printed and no device
\* call, a length within the limit is not refused for its length, and every
\* offset of the payload region read for an accepted event is below 224.
C21_LengthChecked ==
    [][IsProcess /\ entries[Head(queue)].ev.type \in LengthChecked =>
         LET e == Head(queue)
             n == LengthField(e)
         IN  IF n = 0 \/ n > LengthLimit(entries[e].ev.type)
             THEN FailsOnly(e, "ERROR_INVALID_PARAMETER")
             ELSE /\ \A o \in PayloadReads(e) : o < 224
                  /\ NewFails(e) = 1 =>
                         entries[e].ev.type = EVENT_DEV_WRITE /\ entries[e].ev.a < 0]_vars

\* A console write of the largest accepted length has printed all its 220
\* characters, the last of them read at offset 223 of the payload region.
C21_Witness ==
    \E e \in Entries :
        /\ entries[e].ev.type = EVENT_CONSOLE_WRITE
        /\ entries[e].ev.a = 220 /\ Len(entries[e].ev.str) = 220
        /\ entries[e].state = "COMPLETED"
        /\ Len(vga) = 221

(***************************************************************************)
(* Order of slot accesses and counter updates.                             *)
(***************************************************************************)
\* Slots of the event ring that are published and not yet consumed.
PublishedSlots == {SlotIndex(c) : c \in event_ring.head .. (event_ring.tail - 1)}

C23_CounterOwnership ==
    [][/\ IsUserStep =>
            /\ event_ring'.head = event_ring.head
            /\ response_ring'.tail = response_ring.tail
            /\ response_ring'.responses = response_ring.responses
            /\ event_ring'.tail # event_ring.tail => upc = "push_publish"
            /\ response_ring'.head # response_ring.head => upc = "pop_release"
            /\ upc' = "idle" /\ u'.result = 0 =>
                   event_ring' = event_ring /\ response_ring' = response_ring
       /\ ~IsUserStep =>
            /\ event_ring'.tail = event_ring.tail
            /\ response_ring'.head = response_ring.head]_vars

\* Events have been pushed and consumed and a response popped, a push was
\* refused by a full ring, and the last call, a pop_response, has just
\* returned 0 from an empty ring.
C23_Witness ==
    /\ Len(pushed) >= 1 /\ Len(popped) >= 1 /\ rejected # {}
    /\ event_ring.head >= 1
    /\ upc = "idle" /\ u.ev = 0 /\ u.result = 0

(***************************************************************************)
(* Ownership of suspended entries.                                         *)
(***************************************************************************)
\* Active timers that carry a link.
LinkedTimers == {i \in Slots : timers[i].active = 1 /\ timers[i].suspended_entry # NULL}

\* C24: between handlers, every active timer that carries a link points to
\* an existing entry whose state is SUSPENDED, is one-shot, and is the only
\* active timer linked to that entry.
C24_SingularOwnership ==
    \A i \in LinkedTimers :
        /\ timers[i].suspended_entry \in Entries
        /\ entries[timers[i].suspended_entry].state = "SUSPENDED"
        /\ timers[i].interval = 0
        /\ \A j \in LinkedTimers :
              timers[j].suspended_entry = timers[i].suspended_entry => j = i

\* Every slot carries a sleeping entry, after an earlier sleep on one of the
\* slots was woken and its entry left PROCESSING.
C24_Witness ==
    /\ LinkedTimers = Slots
    /\ \E e \in Entries :
          /\ entries[e].ev.type = EVENT_TIMER_SLEEP
          /\ entries[e].state = "PROCESSING" /\ Completes(responses, e) = 1

(***************************************************************************)
(* Console input calls of the library (ulib.c): getchar and readline over  *)
(* execute_event, composed with the deck that serves their events.         *)
(***************************************************************************)
MaxCalls == 2                \* library calls in one behaviour

\* Response as the library sees it: result_data is the raw 64-bit word and
\* mem the bytes found at that address when it is used as a char*.
\* What the deck hands over: a value in the word itself, or, for a
\* RESULT_TYPE_KMALLOC result, the (non-NULL) address of the line buffer.
UserResponse(r) ==
    [event_id |-> r.event_id, status |-> r.status,
     result_data |-> IF r.result_type = "RESULT_TYPE_KMALLOC" THEN 4096
                     ELSE IF r.result_type = "RESULT_TYPE_VALUE" THEN r.result
                     ELSE NULL,
     mem |-> IF r.result_type = "RESULT_TYPE_KMALLOC" THEN r.result ELSE <<>>]

\* "Response resp;" without initialiser: the struct holds whatever the stack
\* held, here a status of either kind and a word that is NULL or the
\* address of an "s" left by earlier use.
GarbageResponses ==
    {[event_id |-> 0, status |-> s, result_data |-> p,
      mem |-> IF p = NULL THEN <<>> ELSE <<115>>] : s \in {0, 1}, p \in {NULL, 115}}

\* The deck and the library before the first call; the event ring is empty
\* or holds RING_SIZE events that were published and not yet consumed.
InitLib ==
    /\ clock = 0
    /\ timers = [i \in Slots |-> Timer0]
    /\ next_timer_id = 1
    /\ entries = <<>>
    /\ queue = <<>>
    /\ responses = <<>>
    /\ vga = <<>>
    /\ kbd = <<>>
    /\ keys_pressed = 0
    /\ pc = "idle"
    /\ rl = NoReadLine
    /\ slept_at = <<>>
    /\ \E backlog \in {0, RING_SIZE} :
          /\ event_ring = [head |-> 0, tail |-> backlog,
                           events |-> [i \in RingSlots |->
                                          IF i < backlog
                                          THEN [Ev(EVENT_CONSOLE_CLEAR, 0, 0, <<>>)
                                                   EXCEPT !.id = i + 1]
                                          ELSE 0]]
          /\ next_event_id = backlog + 1
    /\ response_ring = [head |-> 0, tail |-> 0, responses |-> [i \in RingSlots |-> 0]]
    /\ upc = "idle"
    /\ u = NoLocals
    /\ pushed = <<>>
    /\ consumed = <<>>
    /\ produced = <<>>
    /\ popped = <<>>
    /\ rejected = {}
    /\ workflows = <<>>

\* getchar() / readline() up to the call of push_event: the local Response
\* is left uninitialised and execute_event builds the event.
LibCall(fn) ==
    /\ upc = "idle"
    /\ Len(pushed) + Cardinality(rejected) < MaxCalls
    /\ \E g \in GarbageResponses :
          u' = [fn |-> fn,
                ev |-> [(IF fn = "getchar"
                         THEN Ev(EVENT_CONSOLE_READ_CHAR, 0, 0, <<>>)
                         ELSE Ev(EVENT_CONSOLE_READ_LINE, MAX_LINE, 0, <<>>))
                           EXCEPT !.id = next_event_id],
                resp |-> g, result |-> 0, ret |-> 0]
    /\ next_event_id' = next_event_id + 1
    /\ upc' = "exec_push"
    /\ UNCHANGED <<event_ring, response_ring, pushed, consumed, produced, popped, rejected>>
    /\ UNCHANGED deckVars
    /\ UNCHANGED workflows

\* Variant of the push step that goes on to the traps when the ring is full.
ExecPush_ignoring_result ==
    /\ upc = "exec_push"
    /\ IF push_full(event_ring.tail, event_ring.head)
       THEN /\ rejected' = rejected \cup {u.ev}
            /\ u' = [u EXCEPT !.result = 0]
            /\ UNCHANGED <<event_ring, pushed>>
       ELSE /\ event_ring' = [event_ring EXCEPT !.events[push_slot(event_ring.tail)] = u.ev,
                                                !.tail = @ + 1]
            /\ pushed' = Append(pushed, u.ev)
            /\ UNCHANGED <<u, rejected>>
    /\ upc' = "exec_submit"
    /\ UNCHANGED <<response_ring, next_event_id, consumed, produced, popped>>
    /\ UNCHANGED deckVars
    /\ UNCHANGED workflows

\* if (!push_event(&ev)) return 0;
ExecPush ==
    /\ upc = "exec_push"
    /\ IF push_full(event_ring.tail, event_ring.head)
       THEN /\ rejected' = rejected \cup {u.ev}
            /\ u' = [u EXCEPT !.result = 0]
            /\ upc' = "lib_return"
            /\ UNCHANGED <<event_ring, pushed>>
       ELSE /\ event_ring' = [event_ring EXCEPT !.events[push_slot(event_ring.tail)] = u.ev,
                                                !.tail = @ + 1]
            /\ pushed' = Append(pushed, u.ev)
            /\ upc' = "exec_submit"
            /\ UNCHANGED <<u, rejected>>
    /\ UNCHANGED <<response_ring, next_event_id, consumed, produced, popped>>
    /\ UNCHANGED deckVars
    /\ UNCHANGED workflows

\* kernel_notify(1, NOTIFY_SUBMIT): the kernel takes the event at the head
\* of the ring and routes it to the hardware deck.
KernelSubmit ==
    /\ upc = "exec_submit"
    /\ event_ring.head < event_ring.tail
    /\ LET ev == event_ring.events[SlotIndex(event_ring.head)]
       IN  /\ consumed' = Append(consumed, ev)
           /\ entries' = Append(entries, [state |-> "PENDING", ev |-> ev])
    /\ event_ring' = [event_ring EXCEPT !.head = @ + 1]
    /\ queue' = Append(queue, Len(entries) + 1)
    /\ slept_at' = Append(slept_at, -1)
    /\ upc' = "exec_wait"
    /\ UNCHANGED <<response_ring, next_event_id, u, pushed, produced, popped, rejected>>
    /\ UNCHANGED <<clock, timers, next_timer_id, responses, vga, kbd, keys_pressed, pc, rl>>
    /\ UNCHANGED workflows

\* kernel_notify(1, NOTIFY_WAIT) returns: the deck has finished the entry and
\* the kernel has published its response.
KernelRespond ==
    /\ upc = "exec_wait"
    /\ pc = "idle" /\ queue = <<>>
    /\ Len(produced) < Len(responses)
    /\ response_ring.tail - response_ring.head < RING_SIZE
    /\ LET r == UserResponse(responses[Len(produced) + 1])
       IN  /\ response_ring' =
                  [response_ring EXCEPT !.responses[SlotIndex(response_ring.tail)] = r,
                                        !.tail = @ + 1]
           /\ produced' = Append(produced, r)
    /\ upc' = "exec_pop"
    /\ UNCHANGED <<event_ring, next_event_id, u, pushed, consumed, popped, rejected>>
    /\ UNCHANGED deckVars
    /\ UNCHANGED workflows

\* Variant of the pop step that copies the response and leaves it in the ring.
ExecPop_peeking ==
    /\ upc = "exec_pop"
    /\ IF pop_empty(response_ring.head, response_ring.tail)
       THEN /\ u' = [u EXCEPT !.result = 0]
            /\ UNCHANGED popped
       ELSE LET resp == response_ring.responses[pop_slot(response_ring.head)]
            IN  /\ u' = [u EXCEPT !.resp = resp, !.result = 1]
                /\ popped' = Append(popped, resp)
    /\ upc' = "lib_return"
    /\ UNCHANGED <<event_ring, response_ring, next_event_id, pushed, consumed, produced,
                   rejected>>
    /\ UNCHANGED deckVars
    /\ UNCHANGED workflows

\* return pop_response(out_response);
ExecPop ==
    /\ upc = "exec_pop"
    /\ IF pop_empty(response_ring.head, response_ring.tail)
       THEN /\ u' = [u EXCEPT !.result = 0]
            /\ UNCHANGED <<response_ring, popped>>
       ELSE LET resp == response_ring.responses[pop_slot(response_ring.head)]
            IN  /\ u' = [u EXCEPT !.resp = resp, !.result = 1]
                /\ response_ring' = [response_ring EXCEPT !.head = @ + 1]
                /\ popped' = Append(popped, resp)
    /\ upc' = "lib_return"
    /\ UNCHANGED <<event_ring, next_event_id, pushed, consumed, produced, rejected>>
    /\ UNCHANGED deckVars
    /\ UNCHANGED workflows

\* size_t strlen(const char* s): the number of bytes before the first NUL.
strlen(s) ==
    LET nuls == {k \in 1 .. Len(s) : s[k] = 0}
    IN  IF nuls # {} THEN MinOf(nuls) - 1 ELSE Len(s)

\* readline() after execute_event: the return value of execute_event is not
\* looked at; the contents of readline_buffer up to its NUL.
readline_result(resp) ==
    IF resp.result_data # NULL /\ resp.status = 0
    THEN LET len == IF strlen(resp.mem) >= 256 THEN 255 ELSE strlen(resp.mem)
         IN  SubSeq(resp.mem, 1, len)
    ELSE <<>>

\* return (char)(uint64_t)resp.result_data;
getchar_result(resp) == resp.result_data % 256

LibReturn ==
    /\ upc = "lib_return"
    /\ u' = [u EXCEPT !.ret = IF u.fn = "getchar" THEN getchar_result(u.resp)
                               ELSE readline_result(u.resp)]
    /\ upc' = "idle"
    /\ UNCHANGED <<event_ring, response_ring, next_event_id, pushed, consumed, produced,
                   popped, rejected>>
    /\ UNCHANGED deckVars
    /\ UNCHANGED workflows

NextLib ==
    \/ \E fn \in {"getchar", "readline"} : LibCall(fn)
    \/ ExecPush
    \/ KernelSubmit
    \/ Run
    \/ ReadLineKey
    \/ KernelRespond
    \/ ExecPop
    \/ LibReturn
    \/ \E k \in Keys : KeyPress(k)

SpecLib == InitLib /\ [][NextLib]_vars

\* The deck serves an EVENT_CONSOLE_READ_CHAR.
ReadCharServed ==
    /\ pc = "idle" /\ queue # <<>> /\ queue' = Tail(queue)
    /\ entries[Head(queue)].ev.type = EVENT_CONSOLE_READ_CHAR

GetcharReturns == upc = "lib_return" /\ u.fn = "getchar" /\ upc' = "idle"

\* C25: getchar() is blocking: its read-char event is served only when a key
\* is waiting and is answered with that key, and getchar() returns the key
\* the kernel delivered, never the "no input" value 0.
C25_GetcharBlocks ==
    [][/\ ReadCharServed =>
            /\ kbd # <<>>
            /\ responses'[Len(responses')].result = Head(kbd)
       /\ GetcharReturns =>
            /\ u.result = 1
            /\ u'.ret = u.resp.result_data
            /\ u'.ret \in Keys]_vars

\* What does hold: when a key is waiting, getchar() returns it.
C25_ReturnsWaitingKey ==
    [][ReadCharServed /\ kbd # <<>> =>
          responses'[Len(responses')].result = Head(kbd) /\ kbd' = Tail(kbd)]_vars

ReadlineReturns == upc = "lib_return" /\ u.fn = "readline" /\ upc' = "idle"

\* C26: readline() returns a NUL-terminated string of at most 255
\* characters; the string is empty whenever execute_event returned 0 (the
\* push was refused or no response was popped) or the response reports
\* failure; a non-empty string is the one delivered by the response popped
\* for this call's event.
C26_ReadlineResult ==
    [][ReadlineReturns =>
          /\ Len(u'.ret) <= 255
          /\ \A i \in 1 .. Len(u'.ret) : u'.ret[i] # 0
          /\ (u.result = 0 \/ u.resp.status # 0) => u'.ret = <<>>
          /\ u'.ret # <<>> =>
                /\ popped # <<>> /\ popped[Len(popped)] = u.resp
                /\ u.resp.event_id = u.ev.id
                /\ u'.ret = u.resp.mem]_vars

\* What does hold: a call whose response was popped returns the delivered
\* line, or the empty string if the response reports failure.
C26_DeliveredLine ==
    [][ReadlineReturns /\ u.result = 1 =>
          /\ u.resp.event_id = u.ev.id
          /\ u'.ret = IF u.resp.status = 0 THEN u.resp.mem ELSE <<>>]_vars

(***************************************************************************)
(* ELF64 loader (src/kernel/loader/elf_loader.c).  Addresses and sizes are *)
(* kept small enough that no sum leaves the 64-bit range.                  *)
(***************************************************************************)
ELF_OK == 0
ELF_ERR_NULL == 1
ELF_ERR_NOT_ELF == 2
ELF_ERR_NOT_64 == 3
ELF_ERR_NOT_X86_64 == 4
ELF_ERR_NOT_EXEC == 5
ELF_ERR_NO_SEGMENTS == 6
ELF_ERR_MEMORY == 7
ELF_ERR_LOAD == 8
ELF_FLAG_PIE == 1
ELFCLASS64 == 2
ET_EXEC == 2
ET_DYN == 3
EM_X86_64 == 62
PT_LOAD == 1
PF_W == 2
PAGE_SIZE == 4096
USER_BASE == 4194304         \* 0x400000

\* sizeof(Elf64_Ehdr): the packed members of the struct, in bytes.
sizeof_Elf64_Ehdr == 16 + 2 + 2 + 4 + 8 + 8 + 8 + 4 + 2 + 2 + 2 + 2 + 2 + 2

error_messages ==
    <<"OK", "NULL pointer", "Not an ELF file", "Not 64-bit ELF", "Not x86-64 architecture",
      "Not an executable", "No loadable segments", "Memory allocation failed",
      "Failed to load segment">>

elf_error_string(error) ==
    IF error < 0 \/ error > ELF_ERR_LOAD
    THEN "Unknown error"
    ELSE error_messages[error + 1]

IS_ELF(ehdr) ==
    ehdr.e_ident[1] = 127 /\ ehdr.e_ident[2] = 69 /\ ehdr.e_ident[3] = 76
        /\ ehdr.e_ident[4] = 70

IS_ELF64(ehdr) == ehdr.e_ident[5] = ELFCLASS64

IS_ELF_X86_64(ehdr) == ehdr.e_machine = EM_X86_64

IS_ELF_EXEC(ehdr) == ehdr.e_type = ET_EXEC \/ ehdr.e_type = ET_DYN

\* Variant of elf_validate that tests the machine before the class.
elf_validate_machine_first(data, size, ehdr) ==
    IF data = NULL THEN ELF_ERR_NULL
    ELSE IF size < sizeof_Elf64_Ehdr THEN ELF_ERR_NOT_ELF
    ELSE IF ~IS_ELF(ehdr) THEN ELF_ERR_NOT_ELF
    ELSE IF ~IS_ELF_X86_64(ehdr) THEN ELF_ERR_NOT_X86_64
    ELSE IF ~IS_ELF64(ehdr) THEN ELF_ERR_NOT_64
    ELSE IF ~IS_ELF_EXEC(ehdr) THEN ELF_ERR_NOT_EXEC
    ELSE ELF_OK

\* data: the pointer (NULL or not); ehdr: the header found at a non-NULL data.
elf_validate(data, size, ehdr) ==
    IF data = NULL THEN ELF_ERR_NULL
    ELSE IF size < sizeof_Elf64_Ehdr THEN ELF_ERR_NOT_ELF
    ELSE IF ~IS_ELF(ehdr) THEN ELF_ERR_NOT_ELF
    ELSE IF ~IS_ELF64(ehdr) THEN ELF_ERR_NOT_64
    ELSE IF ~IS_ELF_X86_64(ehdr) THEN ELF_ERR_NOT_X86_64
    ELSE IF ~IS_ELF_EXEC(ehdr) THEN ELF_ERR_NOT_EXEC
    ELSE ELF_OK

\* The ElfLoadInfo of a caller that passed none, before elf_get_info wrote it.
NoInfo ==
    [entry_point |-> 0, base_addr |-> 0, end_addr |-> 0, total_size |-> 0,
     segment_count |-> 0, flags |-> 0]

\* The PT_LOAD entries of the program header table, in table order.
LoadSegments(ehdr) == SelectSeq(ehdr.phdrs, LAMBDA ph : ph.p_type = PT_LOAD)

MaxOf(S) == CHOOSE x \in S : \A y \in S : x >= y

\* Result: [err, info]; info is the caller's ElfLoadInfo after the call.
elf_get_info(data, size, ehdr) ==
    LET err == elf_validate(data, size, ehdr)
        segs == LoadSegments(ehdr)
        scanned ==
            [entry_point |-> ehdr.e_entry,
             base_addr |-> IF segs = <<>> THEN -1
                           ELSE MinOf({segs[k].p_vaddr : k \in 1 .. Len(segs)}),
             end_addr |-> IF segs = <<>> THEN 0
                          ELSE MaxOf({segs[k].p_vaddr + segs[k].p_memsz :
                                          k \in 1 .. Len(segs)}),
             total_size |-> 0,
             segment_count |-> Len(segs),
             flags |-> IF ehdr.e_type = ET_DYN THEN ELF_FLAG_PIE ELSE 0]
    IN  IF err # ELF_OK THEN [err |-> err, info |-> NoInfo]
        ELSE IF scanned.segment_count = 0
        THEN [err |-> ELF_ERR_NO_SEGMENTS, info |-> scanned]
        ELSE [err |-> ELF_OK,
              info |-> [scanned EXCEPT !.total_size = scanned.end_addr - scanned.base_addr]]

\* The memory writes of elf_load for segments k .. of the PT_LOAD list.
RECURSIVE LoadFlat(_, _, _)
LoadFlat(segs, reloc_offset, k) ==
    IF k > Len(segs) THEN <<>>
    ELSE LET ph == segs[k]
             load_addr == ph.p_vaddr + reloc_offset
         IN  (IF ph.p_filesz > 0
              THEN <<[op |-> "memcpy", dst |-> load_addr, src |-> ph.p_offset,
                      n |-> ph.p_filesz]>>
              ELSE <<>>)
             \o (IF ph.p_memsz > ph.p_filesz
                 THEN <<[op |-> "memset", dst |-> load_addr + ph.p_filesz, src |-> 0,
                         n |-> ph.p_memsz - ph.p_filesz]>>
                 ELSE <<>>)
             \o LoadFlat(segs, reloc_offset, k + 1)

\* Result: [ret, info, writes, allocs].
elf_load(data, size, ehdr, load_base) ==
    LET g == elf_get_info(data, size, ehdr)
        reloc_offset == IF g.info.flags = ELF_FLAG_PIE THEN load_base - g.info.base_addr
                        ELSE 0
        entry == ehdr.e_entry + reloc_offset
    IN  IF g.err # ELF_OK
        THEN [ret |-> 0, info |-> g.info, writes |-> <<>>, allocs |-> <<>>]
        ELSE [ret |-> entry,
              info |-> [g.info EXCEPT !.entry_point = entry, !.base_addr = @ + reloc_offset,
                                      !.end_addr = @ + reloc_offset],
              writes |-> LoadFlat(LoadSegments(ehdr), reloc_offset, 1),
              allocs |-> <<>>]

\* The loop of elf_load_process from PT_LOAD segment k on; fail_at is the
\* number of the vmm_alloc_pages call that returns NULL (0: none does).
\* Result: [failed, writes, allocs].
RECURSIVE LoadPaged(_, _, _, _, _)
LoadPaged(segs, reloc_offset, fail_at, k, acc) ==
    IF k > Len(segs) THEN acc
    ELSE LET ph == segs[k]
             seg_vaddr == ph.p_vaddr + reloc_offset
             page_start == seg_vaddr - (seg_vaddr % PAGE_SIZE)
             page_end == ((seg_vaddr + ph.p_memsz + PAGE_SIZE - 1) \div PAGE_SIZE) * PAGE_SIZE
             page_count == (page_end - page_start) \div PAGE_SIZE
             vmm_flags == IF (ph.p_flags \div PF_W) % 2 = 1 THEN "VMM_FLAGS_USER_RW"
                          ELSE "VMM_FLAGS_USER_RO"
             pages == Len(acc.allocs) + 1
             zero == [op |-> "memset", dst |-> <<pages, 0>>, src |-> 0,
                      n |-> page_count * PAGE_SIZE]
             copy == [op |-> "memcpy", dst |-> <<pages, seg_vaddr - page_start>>,
                      src |-> ph.p_offset, n |-> ph.p_filesz]
         IN  IF k = fail_at
             THEN [acc EXCEPT !.failed = TRUE]
             ELSE LoadPaged(segs, reloc_offset, fail_at, k + 1,
                      [acc EXCEPT
                          !.allocs = Append(@, [count |-> page_count, flags |-> vmm_flags]),
                          !.writes = @ \o (IF ph.p_filesz > 0 THEN <<zero, copy>>
                                           ELSE <<zero>>)])

elf_load_process(data, size, ehdr, vmm_context, fail_at) ==
    LET g == elf_get_info(data, size, ehdr)
        reloc_offset == IF g.info.flags = ELF_FLAG_PIE THEN USER_BASE - g.info.base_addr
                        ELSE 0
        load_base == IF g.info.flags = ELF_FLAG_PIE THEN USER_BASE ELSE g.info.base_addr
        entry == ehdr.e_entry + reloc_offset
        done == LoadPaged(LoadSegments(ehdr), reloc_offset, fail_at, 1,
                          [failed |-> FALSE, writes |-> <<>>, allocs |-> <<>>])
    IN  IF g.err # ELF_OK
        THEN [ret |-> 0, info |-> g.info, writes |-> <<>>, allocs |-> <<>>]
        ELSE IF vmm_context = NULL
        THEN [ret |-> 0, info |-> g.info, writes |-> <<>>, allocs |-> <<>>]
        ELSE IF done.failed
        THEN [ret |-> 0, info |-> g.info, writes |-> done.writes, allocs |-> done.allocs]
        ELSE [ret |-> entry,
              info |-> [g.info EXCEPT !.entry_point = entry, !.base_addr = load_base,
                                      !.end_addr = load_base + g.info.total_size],
              writes |-> done.writes, allocs |-> done.allocs]

\* Program headers: a read-only segment at 0x1000, a writable one at 0x3000
\* with a zero-filled tail over two pages, and a PT_NOTE entry.
TextSegment ==
    [p_type |-> PT_LOAD, p_flags |-> 5, p_offset |-> 0, p_vaddr |-> 4096,
     p_filesz |-> 100, p_memsz |-> 100]

DataSegment ==
    [p_type |-> PT_LOAD, p_flags |-> 6, p_offset |-> 4096, p_vaddr |-> 12288,
     p_filesz |-> 16, p_memsz |-> 5000]

NoteSegment ==
    [p_type |-> 4, p_flags |-> 4, p_offset |-> 200, p_vaddr |-> 0, p_filesz |-> 32,
     p_memsz |-> 0]

PhdrTables ==
    {<<>>, <<NoteSegment>>, <<TextSegment>>, <<TextSegment, DataSegment>>,
     <<DataSegment, NoteSegment, TextSegment>>}

\* Images on both sides of every check of elf_validate.
ElfImages ==
    [data : {NULL, 1},
     size : {sizeof_Elf64_Ehdr - 1, sizeof_Elf64_Ehdr},
     ehdr : [e_ident : {<<127, 69, 76, 70, c>> : c \in {1, ELFCLASS64}}
                         \cup {<<127, 69, 76, 71, ELFCLASS64>>, <<0, 69, 76, 70, 1>>},
             e_type : {1, ET_EXEC, ET_DYN, 4},
             e_machine : {3, EM_X86_64},
             e_entry : {4096, 4104},
             phdrs : PhdrTables]]

NoCall == [fn |-> "none", args |-> <<>>, out |-> 0]

InitElf ==
    /\ clock = 0
    /\ timers = [i \in Slots |-> Timer0]
    /\ next_timer_id = 1
    /\ entries = <<>>
    /\ queue = <<>>
    /\ responses = <<>>
    /\ vga = <<>>
    /\ kbd = <<>>
    /\ keys_pressed = 0
    /\ pc = "idle"
    /\ rl = NoReadLine
    /\ slept_at = <<>>
    /\ event_ring = [head |-> 0, tail |-> 0, events |-> [i \in RingSlots |-> 0]]
    /\ response_ring = [head |-> 0, tail |-> 0, responses |-> [i \in RingSlots |-> 0]]
    /\ next_event_id = 1
    /\ upc = "elf_call"
    /\ \E image \in ElfImages : u = [image |-> image, call |-> NoCall]
    /\ pushed = <<>>
    /\ consumed = <<>>
    /\ produced = <<>>
    /\ popped = <<>>
    /\ rejected = {}
    /\ workflows = <<>>

\* A loader function returns; its arguments and result are kept in u.call.
Returned(fn, args, out) ==
    /\ u' = [u EXCEPT !.call = [fn |-> fn, args |-> args, out |-> out]]
    /\ upc' = "elf_done"
    /\ UNCHANGED <<event_ring, response_ring, next_event_id, pushed, consumed, produced,
                   popped, rejected>>
    /\ UNCHANGED deckVars
    /\ UNCHANGED workflows

ElfValidate ==
    /\ upc = "elf_call"
    /\ Returned("elf_validate", <<>>,
                elf_validate(u.image.data, u.image.size, u.image.ehdr))

ElfErrorString ==
    /\ upc = "elf_call"
    /\ \E error \in -1 .. (ELF_ERR_LOAD + 1) :
          Returned("elf_error_string", <<error>>, elf_error_string(error))

ElfLoad ==
    /\ upc = "elf_call"
    /\ \E load_base \in {0, USER_BASE} :
          Returned("elf_load", <<load_base>>,
                   elf_load(u.image.data, u.image.size, u.image.ehdr, load_base))

ElfLoadProcess ==
    /\ upc = "elf_call"
    /\ \E vmm_context \in {NULL, 1}, fail_at \in 0 .. 2 :
          Returned("elf_load_process", <<vmm_context, fail_at>>,
                   elf_load_process(u.image.data, u.image.size, u.image.ehdr, vmm_context,
                                    fail_at))

NextElf == ElfValidate \/ ElfErrorString \/ ElfLoad \/ ElfLoadProcess

SpecElf == InitElf /\ [][NextElf]_vars

(***************************************************************************)
(* Validation of an image and the error messages.                          *)
(***************************************************************************)
\* The conditions of a valid image, in the order they are tested, each with
\* the code reported when it is the first to fail.
ValidationChecks(image) ==
    <<[ok |-> image.data # NULL, code |-> ELF_ERR_NULL],
      [ok |-> image.size >= 64, code |-> ELF_ERR_NOT_ELF],
      [ok |-> SubSeq(image.ehdr.e_ident, 1, 4) = <<127, 69, 76, 70>>,
       code |-> ELF_ERR_NOT_ELF],
      [ok |-> image.ehdr.e_ident[5] = 2, code |-> ELF_ERR_NOT_64],
      [ok |-> image.ehdr.e_machine = 62, code |-> ELF_ERR_NOT_X86_64],
      [ok |-> image.ehdr.e_type \in {2, 3}, code |-> ELF_ERR_NOT_EXEC]>>

FailingChecks(image) == {k \in 1 .. 6 : ~ValidationChecks(image)[k].ok}

\* C28: elf_validate returns ELF_OK exactly when the pointer is non-null,
\* the size is at least 64, the magic is 0x7F 'E' 'L' 'F', the class is
\* 64-bit, the machine is x86-64 and the type is ET_EXEC or ET_DYN, and
\* otherwise the code of the first of these checks that fails;
\* elf_error_string returns the message of each code 0..8 and "Unknown
\* error" for every other value.
C28_ValidateAndMessages ==
    /\ u.call.fn = "elf_validate" =>
          /\ u.call.out = ELF_OK <=> FailingChecks(u.image) = {}
          /\ FailingChecks(u.image) # {} =>
                u.call.out = ValidationChecks(u.image)[MinOf(FailingChecks(u.image))].code
    /\ u.call.fn = "elf_error_string" =>
          u.call.out =
              CASE u.call.args[1] = 0 -> "OK"
                [] u.call.args[1] = 1 -> "NULL pointer"
                [] u.call.args[1] = 2 -> "Not an ELF file"
                [] u.call.args[1] = 3 -> "Not 64-bit ELF"
                [] u.call.args[1] = 4 -> "Not x86-64 architecture"
                [] u.call.args[1] = 5 -> "Not an executable"
                [] u.call.args[1] = 6 -> "No loadable segments"
                [] u.call.args[1] = 7 -> "Memory allocation failed"
                [] u.call.args[1] = 8 -> "Failed to load segment"
                [] OTHER -> "Unknown error"

\* elf_validate has returned "not 64-bit" for an image whose class, machine
\* and type are all wrong.
C28_Witness ==
    /\ u.call.fn = "elf_validate" /\ u.call.out = ELF_ERR_NOT_64
    /\ {4, 5, 6} \subseteq FailingChecks(u.image)

(***************************************************************************)
(* Loading.                                                                *)
(***************************************************************************)
\* The lowest p_vaddr among the PT_LOAD entries of a table that has one.
LowestSegment(ehdr) ==
    MinOf({ehdr.phdrs[k].p_vaddr :
               k \in {j \in 1 .. Len(ehdr.phdrs) : ehdr.phdrs[j].p_type = 1}})

\* e_entry plus the relocation offset for the given load base.
RelocatedEntry(ehdr, load_base) ==
    IF ehdr.e_type = 3 THEN ehdr.e_entry + (load_base - LowestSegment(ehdr))
    ELSE ehdr.e_entry

InfoError == elf_get_info(u.image.data, u.image.size, u.image.ehdr).err # ELF_OK

IsLoad == u.call.fn = "elf_load"

IsLoadProcess == u.call.fn = "elf_load_process"

\* The page allocation that is set to fail is reached.
AllocationFails ==
    /\ IsLoadProcess /\ ~InfoError /\ u.call.args[1] # NULL
    /\ u.call.args[2] \in 1 .. Len(LoadSegments(u.image.ehdr))

NothingLoaded == u.call.out.ret = 0 /\ u.call.out.writes = <<>> /\ u.call.out.allocs = <<>>

\* C27: elf_load and elf_load_process return 0 with nothing copied or
\* allocated when elf_get_info reports an error, and elf_load_process also
\* when the VMM context is null or a page allocation fails; otherwise they
\* return e_entry plus the relocation offset, which is 0 for an ET_EXEC
\* image and the load base minus the lowest segment address for an ET_DYN
\* image.
C27_LoadResult ==
    /\ IsLoad =>
          IF InfoError THEN NothingLoaded
          ELSE u.call.out.ret = RelocatedEntry(u.image.ehdr, u.call.args[1])
    /\ IsLoadProcess =>
          IF InfoError \/ u.call.args[1] = NULL \/ AllocationFails THEN NothingLoaded
          ELSE u.call.out.ret = RelocatedEntry(u.image.ehdr, USER_BASE)

\* What does hold: the return values are as stated, and nothing is copied
\* or allocated on an elf_get_info error or a null context; when the
\* allocation for segment k fails, the pages of the k - 1 segments before it
\* have been allocated and filled.
C27_ReturnValues ==
    /\ IsLoad =>
          IF InfoError THEN NothingLoaded
          ELSE u.call.out.ret = RelocatedEntry(u.image.ehdr, u.call.args[1])
    /\ IsLoadProcess =>
          IF InfoError \/ u.call.args[1] = NULL THEN NothingLoaded
          ELSE IF AllocationFails
          THEN /\ u.call.out.ret = 0
               /\ Len(u.call.out.allocs) = u.call.args[2] - 1
          ELSE u.call.out.ret = RelocatedEntry(u.image.ehdr, USER_BASE)

(***************************************************************************)
(* Workflow definitions and readiness (workflow_register and the           *)
(* completion notification, as described in section 4.5; the test workflow *)
(* of kernel_main).                                                        *)
(***************************************************************************)
MaxNodes == 3                \* nodes of one workflow definition
MaxWorkflows == 2            \* workflow definitions registered in one behaviour

\* WorkflowNode test_nodes[1] of kernel_main.
test_nodes ==
    <<[type |-> EVENT_TIMER_CREATE, data_size |-> 0, dependency_count |-> 0,
       prerequisites |-> {}, ready |-> 1, completed |-> 0, error |-> 0]>>

\* A node template that waits for the given nodes and declares their number
\* as its dependency count.
NodeTemplate(prerequisites) ==
    [type |-> EVENT_TIMER_CREATE, data_size |-> 0,
     dependency_count |-> Cardinality(prerequisites), prerequisites |-> prerequisites,
     ready |-> 0, completed |-> 0, error |-> 0]

\* Node lists a caller may register: the test workflow's, and lists of up to
\* MaxNodes nodes in which node k waits for a set of nodes before it.
NodeTemplates ==
    {test_nodes}
    \cup UNION {{[k \in 1 .. n |-> NodeTemplate(P[k])] :
                    P \in {Q \in [1 .. n -> SUBSET (1 .. (n - 1))] :
                              \A k \in 1 .. n : Q[k] \subseteq 1 .. (k - 1)}} :
                n \in 1 .. MaxNodes}

\* register: the node list is copied into the next table slot, every node
\* with a zero dependency count is marked ready, the new identifier is the
\* slot's number.  declared and delivered keep, for each node, the count it
\* was registered with and, for the workflow, the completions in the order
\* they were delivered.
workflow_register(table, nodes) ==
    Append(table,
           [id |-> Len(table) + 1,
            nodes |-> [k \in DOMAIN nodes |->
                          [nodes[k] EXCEPT !.ready = IF nodes[k].dependency_count = 0
                                                     THEN 1 ELSE 0]],
            declared |-> [k \in DOMAIN nodes |-> nodes[k].dependency_count],
            delivered |-> <<>>])

\* Variant of the notification that marks a dependent ready when at most
\* one of its prerequisites is still missing.
workflow_notify_completion_early(table, w, i) ==
    LET nodes == table[w].nodes
    IN  [table EXCEPT
            ![w].delivered = Append(@, i),
            ![w].nodes =
                [k \in DOMAIN nodes |->
                    IF k = i THEN [nodes[k] EXCEPT !.completed = 1]
                    ELSE IF i \in nodes[k].prerequisites
                    THEN [nodes[k] EXCEPT
                             !.dependency_count = @ - 1,
                             !.ready = IF nodes[k].dependency_count - 1 <= 1 THEN 1 ELSE 0]
                    ELSE nodes[k]]]

\* notify_completion(workflow_id, node_index): the node is completed, the
\* dependency count of every node that has it as a prerequisite is
\* decremented, and a node whose count reaches zero becomes ready.
workflow_notify_completion(table, w, i) ==
    LET nodes == table[w].nodes
    IN  [table EXCEPT
            ![w].delivered = Append(@, i),
            ![w].nodes =
                [k \in DOMAIN nodes |->
                    IF k = i THEN [nodes[k] EXCEPT !.completed = 1]
                    ELSE IF i \in nodes[k].prerequisites
                    THEN [nodes[k] EXCEPT
                             !.dependency_count = @ - 1,
                             !.ready = IF nodes[k].dependency_count - 1 = 0 THEN 1 ELSE 0]
                    ELSE nodes[k]]]

WorkflowRegister ==
    /\ Len(workflows) < MaxWorkflows
    /\ \E nodes \in NodeTemplates : workflows' = workflow_register(workflows, nodes)
    /\ UNCHANGED deckVars
    /\ UNCHANGED ringVars

\* The event of a ready node has been routed and has completed.
NotifyCompletion ==
    /\ \E w \in DOMAIN workflows :
          \E i \in DOMAIN workflows[w].nodes :
              /\ workflows[w].nodes[i].ready = 1
              /\ workflows[w].nodes[i].completed = 0
              /\ workflows' = workflow_notify_completion(workflows, w, i)
    /\ UNCHANGED deckVars
    /\ UNCHANGED ringVars

NextWorkflow == WorkflowRegister \/ NotifyCompletion

SpecWorkflow == Init /\ [][NextWorkflow]_vars

\* Completions of prerequisites of node k recorded so far.
PrerequisitesDelivered(wf, k) ==
    Cardinality({j \in 1 .. Len(wf.delivered) :
                     wf.delivered[j] \in wf.nodes[k].prerequisites})

\* C29: a node registered with dependency count N is ready only when
\* exactly N completions of its prerequisites have been recorded, whatever
\* the order of their delivery, and is ready once they have been; a node
\* registered with count 0 is ready from its registration on.
C29_Readiness ==
    \A w \in DOMAIN workflows :
        \A k \in DOMAIN workflows[w].nodes :
            /\ workflows[w].nodes[k].ready = 1
                   <=> PrerequisitesDelivered(workflows[w], k) = workflows[w].declared[k]
            /\ PrerequisitesDelivered(workflows[w], k) <= workflows[w].declared[k]
            /\ workflows[w].declared[k] = 0 => workflows[w].nodes[k].ready = 1

\* The test workflow of kernel_main is registered and ready, and in another
\* workflow a node with two prerequisites is ready after they completed in
\* the order second, first.
C29_Witness ==
    \E w, v \in DOMAIN workflows :
        /\ workflows[w].declared = <<0>> /\ workflows[w].nodes[1].ready = 1
        /\ workflows[w].nodes[1].type = EVENT_TIMER_CREATE
        /\ Len(workflows[v].nodes) = 3
        /\ workflows[v].declared[3] = 2 /\ workflows[v].nodes[3].ready = 1
        /\ workflows[v].delivered = <<2, 1>>

(***************************************************************************)
(* The value returned by hardware_deck_process.                            *)
(***************************************************************************)
\* hardware_deck_process is called on the entry at the head of the queue, as
\* deck_run_once calls it, or on a null pointer, and returns; the argument
\* and the returned value are kept in u.call.  A read-line returns once the
\* keys that end it have been pressed.
ProcessCall ==
    /\ pc = "idle"
    /\ \E e \in {NULL} \cup (IF queue = <<>> THEN {} ELSE {Head(queue)}),
          malloc_ok \in BOOLEAN, x \in {79}, y \in {24} :
          LET st == IF e = NULL THEN DeckState
                    ELSE [DeckState EXCEPT !.entries[e].state = "PROCESSING"]
              r == hardware_deck_process(st, e, clock,
                                         [malloc_ok |-> malloc_ok, x |-> x, y |-> y])
          IN  /\ r.rl = NoReadLine
              /\ Apply(r.st)
              /\ queue' = IF e = NULL THEN queue ELSE Tail(queue)
              /\ slept_at' = IF e # NULL /\ r.st.entries[e].state = "SUSPENDED"
                              THEN [slept_at EXCEPT ![e] = clock] ELSE slept_at
              /\ u' = [call |-> [fn |-> "hardware_deck_process", args |-> <<e>>,
                                 out |-> r.ret]]
    /\ UNCHANGED <<clock, keys_pressed, pc, rl>>
    /\ UNCHANGED <<event_ring, response_ring, next_event_id, upc, pushed, consumed,
                   produced, popped, rejected>>
    /\ UNCHANGED workflows

NextProcess ==
    \/ \E ev \in EventInputs : OnlyTimerInputs /\ Submit(ev, MaxEntries)
    \/ \E k \in Keys : KeyPress(k)
    \/ ProcessCall

SpecProcess == Init /\ [][NextProcess]_vars

IsProcessCall == u' # u

IsSecondHalf == pc = "swept" /\ pc' = "idle"

\* Timers the step creates: slots inactive before it and active after it.
CreatedSlots == {i \in Slots : timers[i].active = 0 /\ timers'[i].active = 1}

\* Slot i holds, after the step, a timer exactly as timer_create leaves it at
\* clock reading `clock`: nothing has examined, re-armed or released it.
AsCreated(i) ==
    /\ timers'[i].active = 1
    /\ timers'[i].id = next_timer_id'
    /\ \E delay_ms \in 1 .. 2 : timers'[i].expiration = clock + MsToTicks(delay_ms)

\* C31: in each pass of hardware_deck_run_once the sweep comes first and the
\* entry is processed second: an entry is handed to hardware_deck_process
\* only in the second half, a sleeping entry is woken only by the sweep that
\* opens a pass, a timer created in the second half is left as created when
\* the pass ends, and an entry suspended in the second half is still
\* suspended, without a Response, when the pass ends.
C31_SweepThenProcess ==
    [][/\ IsProcess => IsSecondHalf
       /\ \A e \in Entries : Woken(e) => IsSweep
       /\ IsSecondHalf =>
              /\ \A i \in CreatedSlots : AsCreated(i)
              /\ \A e \in Entries :
                     NewSuspends(e) = 1 =>
                         /\ Sleeping(e)'
                         /\ Completes(responses', e) = 0
                         /\ TimersOf(timers', e) # {}]_vars

\* An entry was suspended in a pass that has ended, its deadline has been
\* reached since, and it still sleeps because no later pass has swept yet.
C31_Witness ==
    \E e \in Entries :
        /\ pc = "idle"
        /\ Sleeping(e)
        /\ DeadlineReached(e)
        /\ TimersOf(timers, e) # {}

(***************************************************************************)
(* Owner of a timer.                                                       *)
(***************************************************************************)
\* The step processes an event of the given type.
Processes(type) == IsProcess /\ entries[Head(queue)].ev.type = type

\* C32: every timer created through the deck, by EVENT_TIMER_CREATE or by
\* EVENT_TIMER_SLEEP, records the workflow id of the event that created it
\* (the user_id field of the event) as its owner.
C32_TimerOwner ==
    [][IsProcess =>
         \A i \in CreatedSlots :
             timers'[i].owner_workflow_id = entries[Head(queue)].ev.user_id]_vars

\* What holds: a timer created by EVENT_TIMER_SLEEP records the workflow id of
\* its event, a timer created by EVENT_TIMER_CREATE records 0.
C32_SleepOwner ==
    [][\A i \in CreatedSlots :
           /\ Processes(EVENT_TIMER_SLEEP) =>
                  timers'[i].owner_workflow_id = entries[Head(queue)].ev.user_id
           /\ Processes(EVENT_TIMER_CREATE) => timers'[i].owner_workflow_id = 0]_vars

(***************************************************************************)
(* Timer ids.                                                              *)
(***************************************************************************)
\* Ids handed out by timer_create so far: next_timer_id starts at 1 and is
\* incremented before it is used.
GivenIds == 2 .. next_timer_id

\* Slots the step deactivates.
Deactivated == {i \in Slots : timers[i].active = 1 /\ timers'[i].active = 0}

\* C33: timer ids are never reused. Every id in the table was handed out
\* before, a created timer gets an id above every id handed out before, so
\* active timers have distinct non-zero ids; a cancel of id X deactivates at
\* most the one active timer with id X, and when no active timer has id X
\* (it fired, was cancelled, or its slot holds a newer timer) the cancel
\* changes no timer and fails with ERROR_HW_TIMER_NOT_FOUND.
C33_IdsNeverReused ==
    [][/\ \A i \in Slots : timers[i].id = 0 \/ timers[i].id \in GivenIds
       /\ \A i \in CreatedSlots :
              /\ timers'[i].id = next_timer_id'
              /\ timers'[i].id \notin GivenIds
              /\ timers'[i].id # 0
       /\ \A i, j \in Slots :
              (timers'[i].active = 1 /\ timers'[j].active = 1 /\ i # j)
                  => (timers'[i].id # timers'[j].id /\ timers'[i].id # 0)
       /\ \A i \in Slots : timers'[i].id # timers[i].id => i \in CreatedSlots
       /\ Processes(EVENT_TIMER_CANCEL) =>
              LET X == entries[Head(queue)].ev.a IN
              /\ \A i \in Deactivated : timers[i].id = X
              /\ Cardinality(Deactivated) <= 1
              /\ CancelMatches(DeckState, X) = {} =>
                     /\ timers' = timers
                     /\ LastResponse(Head(queue), 1, "ERROR_HW_TIMER_NOT_FOUND")]_vars

\* A cancel of an id that was handed out failed, the id is in no slot any
\* more, and a newer timer is active.
C33_Witness ==
    \E e \in Entries, i \in Slots :
        /\ entries[e].ev.type = EVENT_TIMER_CANCEL
        /\ entries[e].state = "ERROR"
        /\ entries[e].ev.a \in GivenIds
        /\ \A j \in Slots : timers[j].id # entries[e].ev.a
        /\ timers[i].active = 1
        /\ timers[i].id > entries[e].ev.a

(***************************************************************************)
(* The line buffer of EVENT_CONSOLE_READ_LINE.                             *)
(***************************************************************************)
\* Size of the buffer the handler allocates for a requested max_size.
BufferSize(requested) ==
    IF requested = 0 \/ requested > MAX_LINE THEN MAX_LINE ELSE requested

Printable(line) == \A k \in 1 .. Len(line) : line[k] >= 32 /\ line[k] <= 126

\* The read-line r writes inside its buffer: line[0 .. pos-1] hold the stored
\* characters and line[pos], where the NUL goes, is the last byte at most.
InsideBuffer(r) ==
    /\ r.max_size = BufferSize(entries[r.entry].ev.a)
    /\ 0 <= r.pos /\ r.pos <= r.max_size - 1
    /\ Len(r.line) = r.pos
    /\ Printable(r.line)

\* C34: console read-line never writes outside its buffer. A requested
\* max_size of 0 or above 256 is treated as 256; while the handler waits
\* for a key, 0 <= pos <= max_size - 1 and only printable characters are
\* stored; a backspace at position 0 changes nothing; the line delivered is
\* printable and has at most max_size - 1 characters before its NUL, and
\* max_size 1 delivers the empty line without reading a key.
C34_ReadLineInBuffer ==
    [][/\ pc' = "readline" => InsideBuffer(rl')
       /\ (IsReadLineKey /\ kbd = <<8>> /\ rl.pos = 0) => (rl' = rl /\ vga' = vga)
       /\ \A e \in Entries :
              (entries[e].ev.type = EVENT_CONSOLE_READ_LINE /\ NewCompletes(e) = 1) =>
                  LET line == responses'[Len(responses')].result IN
                  /\ responses'[Len(responses')].result_type = "RESULT_TYPE_KMALLOC"
                  /\ Len(line) <= BufferSize(entries[e].ev.a) - 1
                  /\ Printable(line)
                  /\ BufferSize(entries[e].ev.a) = 1 => (line = <<>> /\ kbd' = kbd)]_vars

\* A read-line with max_size 2 was completed by the buffer running full: one
\* character stored, no Enter read.
C34_Witness ==
    \E e \in Entries :
        /\ entries[e].ev.type = EVENT_CONSOLE_READ_LINE
        /\ entries[e].ev.a = 2
        /\ entries[e].state = "COMPLETED"
        /\ responses # <<>>
        /\ responses[Len(responses)].event_id = e
        /\ Len(responses[Len(responses)].result) = 1
        /\ keys_pressed = 2
        /\ kbd = <<>>

(***************************************************************************)
(* print and print_attr, from the string to the characters on the screen.  *)
(***************************************************************************)
\* Lengths of the strings printed: around the point where the copy of
\* push_event ends and around both payload limits.
PrintLengths == {0, 1, 211, 212, 213, 219, 220, 221}

\* A string of n characters, none of them NUL or newline.
PrintString(n) == [k \in 1 .. n |-> 97 + (k % 26)]

\* *(uint32_t*)p = v, little-endian, and its reading.
StoreU32(v) == <<v % 256, (v \div 256) % 256, (v \div 65536) % 256, (v \div 16777216) % 256>>

LoadU32(data, at) ==
    data[at + 1] + 256 * data[at + 2] + 65536 * data[at + 3] + 16777216 * data[at + 4]

\* memset(&ev, 0, sizeof(ev)); then data[i] = payload[i] for i < data_size.
EventData(payload) ==
    [o \in 1 .. EVENT_DATA_SIZE |-> IF o <= Len(payload) THEN payload[o] ELSE 0]

\* No event: print and print_attr return before they build one.
NoEvent == [type |-> 0, data |-> <<>>]

\* print(str): the event handed to execute_event.
print(str) ==
    LET len == IF Len(str) > EVENT_DATA_SIZE - 4 THEN EVENT_DATA_SIZE - 4 ELSE Len(str)
    IN  IF Len(str) = 0 THEN NoEvent
        ELSE [type |-> EVENT_CONSOLE_WRITE,
              data |-> EventData(StoreU32(len) \o SubSeq(str, 1, len))]

\* print_attr(str, attr)
print_attr(str, attr) ==
    LET len == IF Len(str) > EVENT_DATA_SIZE - 5 THEN EVENT_DATA_SIZE - 5 ELSE Len(str)
    IN  IF Len(str) = 0 THEN NoEvent
        ELSE [type |-> EVENT_CONSOLE_WRITE_ATTR,
              data |-> EventData(<<attr>> \o StoreU32(len) \o SubSeq(str, 1, len))]

\* Offset of data[] inside the packed Event.
offsetof_data == OffsetAfter(EventFields, Len(EventFields) - 1)

\* data[] of the ring slot after push_event copied COPY_QWORDS quadwords of
\* the event into it: bytes past the copy keep what the slot held.
SlotData(data, stale) ==
    [o \in 1 .. EVENT_DATA_SIZE |->
         IF offsetof_data + (o - 1) < 8 * COPY_QWORDS THEN data[o] ELSE stale]

\* The deck's reading of the payload: size, attribute and string region.
DeckEvent(type, data) ==
    IF type = EVENT_CONSOLE_WRITE
    THEN Ev(type, LoadU32(data, 0), 0, SubSeq(data, 5, EVENT_DATA_SIZE))
    ELSE Ev(type, LoadU32(data, 1), data[1], SubSeq(data, 6, EVENT_DATA_SIZE))

\* The program calls print or print_attr on a string.
PrintCall(fn, len) ==
    /\ upc = "idle"
    /\ pc = "idle"
    /\ Len(entries) < MaxCalls
    /\ LET str == PrintString(len)
           attr == IF fn = "print" THEN VGA_DEFAULT ELSE 12
           ev == IF fn = "print" THEN print(str) ELSE print_attr(str, attr)
       IN  /\ u' = [fn |-> fn, str |-> str, attr |-> attr, ev |-> ev]
           /\ upc' = IF ev = NoEvent THEN "idle" ELSE "print_push"
           /\ next_event_id' = IF ev = NoEvent THEN next_event_id ELSE next_event_id + 1
    /\ UNCHANGED <<event_ring, response_ring, pushed, consumed, produced, popped, rejected>>
    /\ UNCHANGED deckVars
    /\ UNCHANGED workflows

\* The event crosses the ring: push_event copies it into a slot whose bytes
\* past the copy hold `stale`, and the kernel hands the slot to the router.
PrintCross(stale) ==
    /\ upc = "print_push"
    /\ pushed' = Append(pushed, u.ev)
    /\ entries' = Append(entries,
                         [state |-> "PENDING",
                          ev |-> [DeckEvent(u.ev.type, SlotData(u.ev.data, stale))
                                      EXCEPT !.id = Len(entries) + 1]])
    /\ queue' = Append(queue, Len(entries) + 1)
    /\ slept_at' = Append(slept_at, -1)
    /\ upc' = "print_wait"
    /\ UNCHANGED <<event_ring, response_ring, next_event_id, u, consumed, produced, popped,
                   rejected>>
    /\ UNCHANGED <<clock, timers, next_timer_id, responses, vga, kbd, keys_pressed, pc, rl>>
    /\ UNCHANGED workflows

\* The deck has answered: execute_event returns to print.
PrintReturn ==
    /\ upc = "print_wait"
    /\ entries[Len(entries)].state \in {"COMPLETED", "ERROR"}
    /\ upc' = "idle"
    /\ UNCHANGED <<event_ring, response_ring, next_event_id, u, pushed, consumed, produced,
                   popped, rejected>>
    /\ UNCHANGED deckVars
    /\ UNCHANGED workflows

NextPrint ==
    \/ \E fn \in {"print", "print_attr"}, len \in PrintLengths : PrintCall(fn, len)
    \/ \E stale \in {0, 255} : PrintCross(stale)
    \/ RunOnceSweep
    \/ RunOnceProcess
    \/ PrintReturn

SpecPrint == Init /\ [][NextPrint]_vars

\* min(len, 220) for print, min(len, 219) for print_attr.
PrintLimit(fn) == IF fn = "print" THEN 220 ELSE 219

Clamped(fn, str) == IF Len(str) > PrintLimit(fn) THEN PrintLimit(fn) ELSE Len(str)

\* The print_char / newline calls the step makes, the cursor update left out.
EmittedCalls == SubSeq(vga', Len(vga) + 1, Len(vga') - 1)

\* The first n characters of str, as calls of vga_print_char.
CharCalls(fn, str, n) == [k \in 1 .. n |-> <<"char", str[k], u.attr>>]

\* The step processes the event of the print call in progress.
IsPrintProcess == IsProcess /\ upc = "print_wait" /\ Head(queue) = Len(entries)

\* C35: for every non-empty string, print and print_attr build an event
\* whose length field is min(len, 220) respectively min(len, 219), the
\* deck's size validation accepts it, and the deck emits exactly the first
\* min(len, limit) characters of the string.
C35_PrintDelivers ==
    [][IsPrintProcess =>
         LET e == Head(queue)
             n == Clamped(u.fn, u.str)
         IN  /\ entries[e].ev.a = n
             /\ NewCompletes(e) = 1
             /\ EmittedCalls = CharCalls(u.fn, u.str, n)]_vars

\* What holds: the length field and its acceptance are as claimed, and the
\* characters emitted are those that lie inside the copy of push_event,
\* followed by what the slot held if that is not zero.
C35_LengthAccepted ==
    [][IsPrintProcess =>
         LET e == Head(queue)
             n == Clamped(u.fn, u.str)
             copied == 8 * COPY_QWORDS - offsetof_data - (IF u.fn = "print" THEN 4 ELSE 5)
         IN  /\ entries[e].ev.a = n
             /\ NewCompletes(e) = 1
             /\ n <= copied => EmittedCalls = CharCalls(u.fn, u.str, n)
             /\ n > copied =>
                    /\ SubSeq(EmittedCalls, 1, copied) = CharCalls(u.fn, u.str, copied)
                    /\ Len(EmittedCalls) \in {copied, n}
                    /\ EmittedCalls # CharCalls(u.fn, u.str, n)]_vars

(***************************************************************************)
(* execute_event, for callers with and without an out_response.            *)
(***************************************************************************)
\* Library functions that call execute_event with out_response = NULL.
NullOutResponse == {"clear", "sleep_ms"}

\* The event each function has execute_event build.
EventOf(fn) ==
    CASE fn = "clear" -> Ev(EVENT_CONSOLE_CLEAR, 0, 0, <<>>)
      [] fn = "getchar" -> Ev(EVENT_CONSOLE_READ_CHAR, 0, 0, <<>>)
      [] fn = "sleep_ms" -> Ev(EVENT_TIMER_SLEEP, 1, 0, <<>>)

\* clear(), getchar() or sleep_ms(1) up to the call of push_event:
\* ev.id = next_event_id++ and the rest of the event.
ExecCall(fn) ==
    /\ upc = "idle"
    /\ Len(pushed) + Cardinality(rejected) < MaxCalls
    /\ \E g \in GarbageResponses :
          u' = [fn |-> fn, ev |-> [EventOf(fn) EXCEPT !.id = next_event_id],
                resp |-> g, result |-> 0, ret |-> 0]
    /\ next_event_id' = next_event_id + 1
    /\ upc' = "exec_push"
    /\ UNCHANGED <<event_ring, response_ring, pushed, consumed, produced, popped, rejected>>
    /\ UNCHANGED deckVars
    /\ UNCHANGED workflows

\* if (out_response) return pop_response(out_response);
ExecPopOut ==
    /\ upc = "exec_pop"
    /\ u.fn \notin NullOutResponse
    /\ ExecPop

\* Response dummy; pop_response(&dummy); return 1;
ExecDrain ==
    /\ upc = "exec_pop"
    /\ u.fn \in NullOutResponse
    /\ IF pop_empty(response_ring.head, response_ring.tail)
       THEN /\ u' = [u EXCEPT !.result = 1]
            /\ UNCHANGED <<response_ring, popped>>
       ELSE LET dummy == response_ring.responses[pop_slot(response_ring.head)]
            IN  /\ u' = [u EXCEPT !.resp = dummy, !.result = 1]
                /\ response_ring' = [response_ring EXCEPT !.head = @ + 1]
                /\ popped' = Append(popped, dummy)
    /\ upc' = "lib_return"
    /\ UNCHANGED <<event_ring, next_event_id, pushed, consumed, produced, rejected>>
    /\ UNCHANGED deckVars
    /\ UNCHANGED workflows

\* execute_event has returned to its caller, and the caller to the program.
ExecReturn ==
    /\ upc = "lib_return"
    /\ u' = [u EXCEPT !.ret = IF u.fn = "getchar" THEN getchar_result(u.resp) ELSE 0]
    /\ upc' = "idle"
    /\ UNCHANGED <<event_ring, response_ring, next_event_id, pushed, consumed, produced,
                   popped, rejected>>
    /\ UNCHANGED deckVars
    /\ UNCHANGED workflows

NextExec ==
    \/ \E fn \in {"clear", "getchar", "sleep_ms"} : ExecCall(fn)
    \/ ExecPush
    \/ KernelSubmit
    \/ Tick
    \/ RunOnceSweep
    \/ RunOnceProcess
    \/ KernelRespond
    \/ ExecPopOut
    \/ ExecDrain
    \/ ExecReturn
    \/ \E k \in Keys : KeyPress(k)

SpecExec == InitLib /\ [][NextExec]_vars

\* Ids execute_event has assigned so far: to the events it pushed, to those
\* push_event refused, and to the events that were in the ring at the start.
AssignedIds ==
    {pushed[i].id : i \in 1 .. Len(pushed)} \cup {ev.id : ev \in rejected}
    \cup {i \in 1 .. RING_SIZE : event_ring.tail - Len(pushed) = RING_SIZE}

\* The step is a trap into the kernel or the kernel acting on one.
IsTrap == consumed' # consumed \/ produced' # produced

\* The step calls pop_response.
IsPop == upc = "exec_pop" /\ upc' = "lib_return"

\* C36: execute_event follows a fixed protocol. A rejected push leads
\* straight to the return of 0, no trap and no pop in between; an accepted
\* push is followed by kernel_notify(SUBMIT), then kernel_notify(WAIT),
\* then one pop_response, then the return, in that order; and the id given
\* to an event is above every id given before.
C36_Protocol ==
    [][/\ upc = "exec_push" /\ upc' # upc =>
              IF push_full(event_ring.tail, event_ring.head)
              THEN upc' = "lib_return" /\ u'.result = 0 /\ pushed' = pushed
              ELSE upc' = "exec_submit" /\ pushed' = Append(pushed, u.ev)
       /\ upc = "exec_submit" /\ upc' # upc => upc' = "exec_wait" /\ consumed' # consumed
       /\ upc = "exec_wait" /\ upc' # upc => upc' = "exec_pop"
       /\ upc = "exec_pop" /\ upc' # upc => upc' = "lib_return"
       /\ upc = "lib_return" /\ upc' # upc => upc' = "idle"
       /\ IsTrap => upc \in {"exec_submit", "exec_wait"}
       /\ (response_ring'.head # response_ring.head \/ popped' # popped) =>
              /\ IsPop
              /\ Len(popped') = Len(popped) + 1
              /\ response_ring'.head = response_ring.head + 1
       /\ (upc = "lib_return" /\ u.ev \in rejected) =>
              (u.ev.id \notin {consumed[i].id : i \in 1 .. Len(consumed)} /\ u.result = 0)
       /\ upc = "idle" /\ upc' = "exec_push" =>
              /\ \A id \in AssignedIds : u'.ev.id > id
              /\ next_event_id' > next_event_id]_vars

\* Two calls have returned: the first was carried through submit, wait and
\* pop, the second got a higher id.
C36_Witness ==
    /\ upc = "idle"
    /\ Len(pushed) = 2
    /\ Len(popped) = 2
    /\ pushed[1].id < pushed[2].id
    /\ pushed[1].type = EVENT_TIMER_SLEEP

\* No response is waiting in the response ring.
ResponseRingEmpty == response_ring.head = response_ring.tail

sizeof_Elf64_Phdr == 4 + 4 + 8 + 8 + 8 + 8 + 8 + 8

\* The images lay the program header table right behind the ELF header,
\* with entries of the size of the struct.
e_phoff(ehdr) == sizeof_Elf64_Ehdr

e_phentsize(ehdr) == sizeof_Elf64_Phdr

e_phnum(ehdr) == Len(ehdr.phdrs)

\* Offsets read through phdr = phdr_base + i * e_phentsize, for i < e_phnum.
HeaderReads(ehdr) ==
    UNION {(e_phoff(ehdr) + i * e_phentsize(ehdr)) ..
               (e_phoff(ehdr) + i * e_phentsize(ehdr) + sizeof_Elf64_Phdr - 1) :
           i \in 0 .. (e_phnum(ehdr) - 1)}

\* Offsets read by memcpy(dst, file_data + p_offset, p_filesz).
SegmentReads(writes) ==
    UNION {writes[k].src .. (writes[k].src + writes[k].n - 1) :
           k \in {j \in 1 .. Len(writes) : writes[j].op = "memcpy"}}

\* The image of the call passes elf_validate.
PassesValidate == elf_validate(u.image.data, u.image.size, u.image.ehdr) = ELF_OK

\* Offsets the program headers of the image name: the table itself and the
\* file bytes of its PT_LOAD segments.
NamedOffsets(image) ==
    HeaderReads(image.ehdr)
    \cup UNION {ph.p_offset .. (ph.p_offset + ph.p_filesz - 1) :
                ph \in {image.ehdr.phdrs[k] :
                           k \in {j \in 1 .. Len(image.ehdr.phdrs) :
                                     image.ehdr.phdrs[j].p_type = PT_LOAD}}}

\* C38: elf_get_info and elf_load never read the input at an offset at or
\* beyond size: for an image that passes elf_validate, every program
\* header read and every segment byte copied lies inside the size bytes
\* of data, and an image whose headers or segments point outside is
\* rejected with an error.
C38_ReadsInsideImage ==
    (upc = "elf_done" /\ u.call.fn = "elf_load" /\ PassesValidate) =>
        /\ \A o \in HeaderReads(u.image.ehdr) : o < u.image.size
        /\ \A o \in SegmentReads(u.call.out.writes) : o < u.image.size
        /\ (\E o \in NamedOffsets(u.image) : o >= u.image.size) => u.call.out.ret = 0

(***************************************************************************)
(* kernel_main from phase 5 on: initialisation, test workflow, first       *)
(* processes, interrupts.                                                  *)
(***************************************************************************)
\* The calls of phase 5, in program order.
Phase5 == <<"eventdriven_system", "workflow_engine", "process", "scheduler">>

\* Locals of kernel_main. use_shell: the build defines USE_SHELL; image: the
\* bytes of shell_binary; interrupts: the CPU's interrupt flag.
BootLocals(use_shell, image) ==
    [use_shell |-> use_shell, image |-> image, initialised |-> <<>>, workflow_id |-> -1,
     elf_err |-> -1, procs |-> <<>>, ready |-> <<>>, interrupts |-> FALSE, panic |-> ""]

\* Shell binaries on both sides of every check of elf_validate.
ShellBinaries == {image \in ElfImages : image.ehdr.phdrs = <<TextSegment, DataSegment>>}

InitBoot ==
    /\ clock = 0
    /\ timers = [i \in Slots |-> Timer0]
    /\ next_timer_id = 1
    /\ entries = <<>>
    /\ queue = <<>>
    /\ responses = <<>>
    /\ vga = <<>>
    /\ kbd = <<>>
    /\ keys_pressed = 0
    /\ pc = "idle"
    /\ rl = NoReadLine
    /\ slept_at = <<>>
    /\ event_ring = [head |-> 0, tail |-> 0, events |-> [i \in RingSlots |-> 0]]
    /\ response_ring = [head |-> 0, tail |-> 0, responses |-> [i \in RingSlots |-> 0]]
    /\ next_event_id = 1
    /\ upc = "phase5"
    /\ \E use_shell \in BOOLEAN, image \in ShellBinaries : u = BootLocals(use_shell, image)
    /\ pushed = <<>>
    /\ consumed = <<>>
    /\ produced = <<>>
    /\ popped = <<>>
    /\ rejected = {}
    /\ workflows = <<>>

\* kernel_main moves to position next_upc with locals next_u.
BootStep(next_upc, next_u) ==
    /\ upc' = next_upc
    /\ u' = next_u
    /\ UNCHANGED <<event_ring, response_ring, next_event_id, pushed, consumed, produced,
                   popped, rejected>>
    /\ UNCHANGED deckVars

\* panic(message): the kernel stops; the call does not return.
panic(locals, message) == BootStep("panic", [locals EXCEPT !.panic = message])

\* eventdriven_system_init/start, workflow_engine_init, process_init,
\* scheduler_init: the next call of phase 5.
InitSubsystem ==
    /\ upc = "phase5"
    /\ LET done == Append(u.initialised, Phase5[Len(u.initialised) + 1])
       IN  BootStep(IF Len(done) = Len(Phase5) THEN "phase7" ELSE "phase5",
                    [u EXCEPT !.initialised = done])
    /\ UNCHANGED workflows

\* Variant of phase 7 that goes on when workflow_register returned 0.
RegisterTestWorkflow_unchecked ==
    /\ upc = "phase7"
    /\ \E registered \in BOOLEAN :
          /\ workflows' = IF registered THEN workflow_register(workflows, test_nodes)
                          ELSE workflows
          /\ BootStep("phase8",
                      [u EXCEPT !.workflow_id = IF registered THEN Len(workflows) + 1 ELSE 0])

\* workflow_id = workflow_register("test_workflow", route, 1, test_nodes, 0);
\* if (!workflow_id) panic(...)
RegisterTestWorkflow ==
    /\ upc = "phase7"
    /\ \E registered \in BOOLEAN :
          LET workflow_id == IF registered THEN Len(workflows) + 1 ELSE 0
          IN  /\ workflows' = IF registered THEN workflow_register(workflows, test_nodes)
                              ELSE workflows
              /\ IF workflow_id # 0
                 THEN BootStep("phase8", [u EXCEPT !.workflow_id = workflow_id])
                 ELSE panic([u EXCEPT !.workflow_id = workflow_id],
                            "Failed to register test workflow!")

\* #ifdef USE_SHELL: elf_validate(shell_binary, shell_binary_len)
ValidateShell ==
    /\ upc = "phase8"
    /\ u.use_shell
    /\ LET elf_err == elf_validate(u.image.data, u.image.size, u.image.ehdr)
       IN  IF elf_err # ELF_OK
           THEN panic([u EXCEPT !.elf_err = elf_err], "Invalid shell ELF!")
           ELSE BootStep("create_shell", [u EXCEPT !.elf_err = elf_err])
    /\ UNCHANGED workflows

\* shell_proc = process_create_elf(...); if (!shell_proc) panic(...)
CreateShell ==
    /\ upc = "create_shell"
    /\ \E shell_proc \in {NULL, 1} :
          IF shell_proc = NULL
          THEN panic([u EXCEPT !.procs = Append(@, shell_proc)],
                     "Failed to create shell process!")
          ELSE BootStep("add", [u EXCEPT !.procs = Append(@, shell_proc)])
    /\ UNCHANGED workflows

\* #else: proc1 = process_create(...); proc2 = process_create(...); each
\* followed by if (!proc) panic(...)
CreateTestProcess ==
    /\ upc = IF u.use_shell THEN "never" ELSE IF Len(u.procs) = 0 THEN "phase8" ELSE "create2"
    /\ \E proc \in {NULL, Len(u.procs) + 1} :
          IF proc = NULL
          THEN panic([u EXCEPT !.procs = Append(@, proc)],
                     IF Len(u.procs) = 0 THEN "Failed to create process 1!"
                     ELSE "Failed to create process 2!")
          ELSE BootStep(IF Len(u.procs) = 0 THEN "create2" ELSE "add",
                        [u EXCEPT !.procs = Append(@, proc)])
    /\ UNCHANGED workflows

\* scheduler_add_process for the shell, or for proc1 and proc2.
AddProcesses ==
    /\ upc = "add"
    /\ BootStep("sti", [u EXCEPT !.ready = u.procs])
    /\ UNCHANGED workflows

\* asm volatile("sti"); then the idle loop.
EnableInterrupts ==
    /\ upc = "sti"
    /\ BootStep("idle_loop", [u EXCEPT !.interrupts = TRUE])
    /\ UNCHANGED workflows

NextBoot ==
    \/ InitSubsystem
    \/ RegisterTestWorkflow
    \/ ValidateShell
    \/ CreateShell
    \/ CreateTestProcess
    \/ AddProcesses
    \/ EnableInterrupts

SpecBoot == InitBoot /\ [][NextBoot]_vars

\* A step of the boot sequence has failed.
BootFailure ==
    \/ u.workflow_id = 0
    \/ u.elf_err \notin {-1, ELF_OK}
    \/ \E k \in 1 .. Len(u.procs) : u.procs[k] = NULL

\* C39: boot ordering. Interrupts are enabled only after the event-driven
\* system, the workflow engine, process management and the scheduler are
\* initialised, the test workflow is registered and the initial processes
\* are in the scheduler; every failure on the way (workflow registration
\* returning 0, shell ELF validation error, process creation returning
\* null) has panicked, with interrupts still disabled.
C39_BootOrder ==
    /\ u.interrupts =>
           /\ u.initialised = Phase5
           /\ u.workflow_id # 0 /\ u.workflow_id \in DOMAIN workflows
           /\ u.ready = IF u.use_shell THEN <<1>> ELSE <<1, 2>>
           /\ u.use_shell => u.elf_err = ELF_OK
           /\ ~BootFailure
    /\ BootFailure => (upc = "panic" /\ ~u.interrupts)
    /\ upc = "panic" => (BootFailure /\ ~u.interrupts)

\* The shell build has reached the idle loop with interrupts enabled.
C39_Witness ==
    /\ upc = "idle_loop"
    /\ u.interrupts
    /\ u.use_shell
    /\ u.ready = <<1>>

(***************************************************************************)
(* The shell: command line, argument table and context tags.               *)
(***************************************************************************)
MAX_CONTEXT_TAGS == 8

MAX_ARGS == 16

TAG_KEY_SIZE == 32

TAG_VALUE_SIZE == 64

MaxLines == 2                \* command lines entered in one behaviour

\* is_tag(s): s contains ':'.
is_tag(s) == \E k \in 1 .. Len(s) : s[k] = 58

\* contains_char(s, c)
contains_char(s, c) == \E k \in 1 .. Len(s) : s[k] = c

\* The first n elements of a sequence, all of them if it has fewer.
Take(s, n) == SubSeq(s, 1, IF Len(s) < n THEN Len(s) ELSE n)

\* parse_tag(s, tag): the key is what stands before the first ':', cut to
\* TAG_KEY_SIZE - 1 characters; if the character after the key is not ':'
\* the value is empty, else it is the rest, cut to TAG_VALUE_SIZE - 1.
parse_tag(s) ==
    LET colons == {k \in 1 .. Len(s) : s[k] = 58}
        stop == IF colons = {} THEN Len(s) + 1 ELSE MinOf(colons)
        i == IF stop - 1 > TAG_KEY_SIZE - 1 THEN TAG_KEY_SIZE - 1 ELSE stop - 1
    IN  IF i + 1 > Len(s) \/ s[i + 1] # 58
        THEN [key |-> SubSeq(s, 1, i), value |-> <<>>]
        ELSE [key |-> SubSeq(s, 1, i),
              value |-> Take(SubSeq(s, i + 2, Len(s)), TAG_VALUE_SIZE - 1)]

\* The delimiters parse_and_execute gives to strtok: " \t".
IsDelim(c) == c = 32 \/ c = 9

\* The tokens successive strtok calls return for a line, in order: strtok
\* works on a copy of at most 255 characters.
Tokens(line) ==
    LET b == Take(line, 255)
        starts == {i \in 1 .. Len(b) : ~IsDelim(b[i]) /\ (i = 1 \/ IsDelim(b[i - 1]))}
        start(k) == CHOOSE s \in starts : Cardinality({t \in starts : t < s}) = k - 1
        end(s) == MinOf({e \in s .. Len(b) : e = Len(b) \/ IsDelim(b[e + 1])})
    IN  [k \in 1 .. Cardinality(starts) |-> SubSeq(b, start(k), end(start(k)))]

\* Variant of the loop of cmd_use without the bound on the context table.
RECURSIVE UseLoop_unbounded(_, _, _)
UseLoop_unbounded(args, context, i) ==
    IF i < Len(args)
    THEN UseLoop_unbounded(args,
                 IF is_tag(args[i + 1]) \/ ~contains_char(args[i + 1], 32)
                 THEN Append(context, parse_tag(args[i + 1]))
                 ELSE context,
                 i + 1)
    ELSE context

\* for (i = 1; i < arg_count && context_tag_count < MAX_CONTEXT_TAGS; i++):
\* args[i] is element i + 1 of the sequence.
RECURSIVE UseLoop(_, _, _)
UseLoop(args, context, i) ==
    IF i < Len(args) /\ Len(context) < MAX_CONTEXT_TAGS
    THEN UseLoop(args,
                 IF is_tag(args[i + 1]) \/ ~contains_char(args[i + 1], 32)
                 THEN Append(context, parse_tag(args[i + 1]))
                 ELSE context,
                 i + 1)
    ELSE context

\* cmd_use(): the context after the command.
cmd_use(args) == UseLoop(args, <<>>, 1)

\* parse_and_execute(line): the shell's tables after the command.
\* sh = [args, context]; arg_count and context_tag_count are the lengths.
parse_and_execute(sh, line) ==
    LET args == Take(Tokens(line), MAX_ARGS)
    IN  IF args = <<>> THEN [sh EXCEPT !.args = <<>>]
        ELSE IF args[1] = <<117, 115, 101>>
        THEN [sh EXCEPT !.args = args, !.context = cmd_use(args)]
        ELSE [sh EXCEPT !.args = args]

\* Argument j of a typed line: "kNN:v", "wNN", or a tag whose key and value
\* are longer than the fields of a Tag.
Argument(shape, j) ==
    CASE shape = "tag" -> <<107, 48 + (j \div 10), 48 + (j % 10), 58, 118>>
      [] shape = "word" -> <<119, 48 + (j \div 10), 48 + (j % 10)>>
      [] shape = "long" -> [k \in 1 .. 40 |-> 120] \o <<58>> \o [k \in 1 .. 70 |-> 121]

\* The line typed for a command with n arguments.
RECURSIVE TypedLine(_, _, _, _, _)
TypedLine(cmd, shape, sep, n, j) ==
    IF j > n THEN <<>>
    ELSE sep \o Argument(shape, j) \o TypedLine(cmd, shape, sep, n, j + 1)

Commands == {<<117, 115, 101>>, <<115, 97, 121>>, <<117, 115, 101, 114>>}

InitShell ==
    /\ clock = 0
    /\ timers = [i \in Slots |-> Timer0]
    /\ next_timer_id = 1
    /\ entries = <<>>
    /\ queue = <<>>
    /\ responses = <<>>
    /\ vga = <<>>
    /\ kbd = <<>>
    /\ keys_pressed = 0
    /\ pc = "idle"
    /\ rl = NoReadLine
    /\ slept_at = <<>>
    /\ event_ring = [head |-> 0, tail |-> 0, events |-> [i \in RingSlots |-> 0]]
    /\ response_ring = [head |-> 0, tail |-> 0, responses |-> [i \in RingSlots |-> 0]]
    /\ next_event_id = 1
    /\ upc = "shell_prompt"
    /\ u = [args |-> <<>>, context |-> <<>>, lines |-> 0,
            typed |-> [cmd |-> <<>>, shape |-> "word", n |-> 0]]
    /\ pushed = <<>>
    /\ consumed = <<>>
    /\ produced = <<>>
    /\ popped = <<>>
    /\ rejected = {}
    /\ workflows = <<>>

\* One turn of the shell's main loop: readline() returned the typed line
\* and parse_and_execute ran on it.
ShellLine(lead, cmd, shape, sep, n) ==
    /\ upc = "shell_prompt"
    /\ u.lines < MaxLines
    /\ LET line == lead \o cmd \o TypedLine(cmd, shape, sep, n, 1)
           sh == parse_and_execute(u, line)
       IN  /\ Len(line) <= 255
           /\ u' = [sh EXCEPT !.lines = @ + 1,
                              !.typed = [cmd |-> cmd, shape |-> shape, n |-> n]]
    /\ UNCHANGED <<event_ring, response_ring, next_event_id, upc, pushed, consumed,
                   produced, popped, rejected>>
    /\ UNCHANGED deckVars
    /\ UNCHANGED workflows

\* A line of blanks only: parse_and_execute returns before tokenizing.
ShellBlankLine ==
    /\ upc = "shell_prompt"
    /\ u.lines < MaxLines
    /\ u' = [parse_and_execute(u, <<32, 9, 32>>) EXCEPT
                 !.lines = @ + 1, !.typed = [cmd |-> <<>>, shape |-> "word", n |-> 0]]
    /\ UNCHANGED <<event_ring, response_ring, next_event_id, upc, pushed, consumed,
                   produced, popped, rejected>>
    /\ UNCHANGED deckVars
    /\ UNCHANGED workflows

NextShell ==
    \/ \E lead \in {<<>>, <<32>>}, cmd \in Commands, shape \in {"tag", "word", "long"},
          sep \in {<<32>>, <<32, 32>>, <<9>>}, n \in {0, 1, 2, 7, 8, 9, 15, 16, 17} :
              ShellLine(lead, cmd, shape, sep, n)
    \/ ShellBlankLine

SpecShell == InitShell /\ [][NextShell]_vars

\* The tag a typed argument stands for: key and value as typed, the long
\* one with its key cut to the 31 characters a Tag holds and no value.
TypedTag(shape, j) ==
    CASE shape = "tag" -> [key |-> <<107, 48 + (j \div 10), 48 + (j % 10)>>, value |-> <<118>>]
      [] shape = "word" -> [key |-> Argument("word", j), value |-> <<>>]
      [] shape = "long" -> [key |-> [k \in 1 .. TAG_KEY_SIZE - 1 |-> 120], value |-> <<>>]

\* C40: the shell's tables stay within their sizes after any sequence of
\* command lines: 0 <= arg_count <= 16 and 0 <= context_tag_count <= 8; a
\* 'use' command with k arguments replaces the context by its first
\* min(k, 8) arguments, in order, and 'use' without arguments clears it.
C40_ShellTables ==
    [][u'.lines = u.lines + 1 =>
         LET k == u'.typed.n
             m == IF k < MAX_CONTEXT_TAGS THEN k ELSE MAX_CONTEXT_TAGS
         IN  /\ Len(u'.args) >= 0 /\ Len(u'.args) <= MAX_ARGS
             /\ Len(u'.context) >= 0 /\ Len(u'.context) <= MAX_CONTEXT_TAGS
             /\ u'.typed.cmd # <<>> =>
                    Len(u'.args) = (IF k + 1 < MAX_ARGS THEN k + 1 ELSE MAX_ARGS)
             /\ IF u'.typed.cmd = <<117, 115, 101>>
                THEN u'.context = [j \in 1 .. m |-> TypedTag(u'.typed.shape, j)]
                ELSE u'.context = u.context]_vars

\* A 'use' with more than eight arguments was run on a context that held
\* other tags: the context is the first eight arguments.
C40_Witness ==
    /\ u.lines = 2
    /\ u.typed.cmd = <<117, 115, 101>>
    /\ u.typed.n = 17
    /\ Len(u.args) = MAX_ARGS
    /\ Len(u.context) = MAX_CONTEXT_TAGS
    /\ u.context[8] = TypedTag("tag", 8)

====
